---- MODULE Spec2Model ----
(***************************************************************************)
(* E-vault for legal records: a content-addressed encrypted document       *)
(* store (storage-works/document_storage.py), a hash-chained ledger        *)
(* (blockchain/blockchain.py) with its checkpoint file                     *)
(* (blockchain/persistence.py), a user/session directory                   *)
(* (blockchain/auth.py) and the controller composing them                  *)
(* (blockchain/evault_controller.py).                                      *)
(*                                                                         *)
(* Conventions of the model                                                *)
(*  - Python None is the empty tuple; every value the code compares with   *)
(*    None is a tuple (ids, tokens and digests are tuples).                *)
(*  - SHA-256 is collision-free: a digest is the tuple of what was hashed. *)
(*    The number of leading zero hex digits of a block digest is a fixed   *)
(*    arithmetic function of the hashed fields (LeadingZeros).             *)
(*  - secrets.token_hex, get_random_bytes and the iv of a new cipher are   *)
(*    values never drawn before: the n-th draw is named by n.              *)
(*  - time.time() reads a clock `now` that never runs backwards.           *)
(*  - An exception is a result record with ok = FALSE and the message of   *)
(*    the ValueError; `ret` holds the result of the last call.             *)
(***************************************************************************)
EXTENDS Integers, Sequences, FiniteSets, TLC

VARIABLES
    blockchain,       \* controller.blockchain: [chain, pending_transactions, difficulty]
    blockchain_file,  \* storage/blockchain.json: None, or the dict last saved
    users,            \* auth.users: username -> user record
    sessions,         \* auth.sessions: token -> [user_id, username]
    metadata,         \* document_storage.metadata: document hash -> record
    documents,        \* storage/documents/<hash>: document hash -> ciphertext
    now,              \* the clock time.time() reads
    drawn,            \* how many ids and tokens secrets.token_hex has drawn
    ret,              \* the last call and what it returned or raised
    calls,            \* controller calls in progress: caller -> [pc, transaction, done]
    pending_aliases,  \* positions of the blocks whose transactions list IS pending_transactions
    interleaved       \* history: a call has begun while another call was in progress

vars == <<blockchain, blockchain_file, users, sessions, metadata, documents,
          now, drawn, ret, calls, pending_aliases, interleaved>>

----------------------------------------------------------------------------
(* Bounds of the model *)

MaxChain == 3

MaxPending == 2

MaxLedgerChain == 4

MaxStoreCalls == 2

MaxMixedSessions == 1

MaxSalts == 3

MaxCustodyChain == 4

MaxCustodySessions == 2

MaxSnapshotChain == 3

MaxSnapshotPending == 1

MaxTime == 1

MaxUsers == 2

MaxSessions == 2

MaxBytes == 1

HashZeroCycle == 4

MaxCallers == 2

MaxCallsPerCaller == 2

(* Program constants *)

DefaultDifficulty == 2

AES_block_size == 16

ByteRange == 256

----------------------------------------------------------------------------
(* Values *)

None == <<>>

Last(s) == s[Len(s)]

Range(s) == {s[i] : i \in 1..Len(s)}

Get(d, k) == IF k \in DOMAIN d THEN d[k] ELSE None

----------------------------------------------------------------------------
(* blockchain/blockchain.py: Block *)

calculate_hash(b) ==
    <<b.index, b.timestamp, b.transactions, b.previous_hash, b.nonce>>

\* number of leading "0" hex digits of a block digest: the model of how the
\* hex string of SHA-256 begins, a function of everything that was hashed
LeadingZeros(h) ==
    IF Len(h) = 5 THEN (h[1] + h[2] + Len(h[3]) + Len(h[4]) + 3 * h[5]) % HashZeroCycle
    ELSE 0

Block(index, timestamp, transactions, previous_hash) ==
    LET b == [index |-> index, timestamp |-> timestamp,
              transactions |-> transactions, previous_hash |-> previous_hash,
              nonce |-> 0, hash |-> None]
    IN [b EXCEPT !.hash = calculate_hash(b)]

\* mine_block that tries the next nonce once and stops
mine_block_one_try(b, difficulty) ==
    IF LeadingZeros(b.hash) >= difficulty THEN b
    ELSE LET b1 == [b EXCEPT !.nonce = b.nonce + 1]
         IN [b1 EXCEPT !.hash = calculate_hash(b1)]

RECURSIVE mine_block(_, _)
mine_block(b, difficulty) ==
    IF LeadingZeros(b.hash) >= difficulty THEN b
    ELSE LET b1 == [b EXCEPT !.nonce = b.nonce + 1]
         IN mine_block([b1 EXCEPT !.hash = calculate_hash(b1)], difficulty)

----------------------------------------------------------------------------
(* blockchain/blockchain.py: Blockchain *)

GenesisPreviousHash == <<0>>

create_genesis_block(t) == Block(0, t, <<>>, GenesisPreviousHash)

NewBlockchain(t) ==
    [chain |-> <<create_genesis_block(t)>>,
     difficulty |-> DefaultDifficulty,
     pending_transactions |-> <<>>]

get_latest_block(bc) == Last(bc.chain)

\* add_block giving the new block the index of the latest block
add_block_same_index(bc, transactions, t) ==
    LET latest_block == get_latest_block(bc)
        new_block == Block(latest_block.index, t, transactions, latest_block.hash)
    IN [bc EXCEPT !.chain = Append(bc.chain, mine_block(new_block, bc.difficulty))]

\* add_block linking the new block to the block before the latest one
add_block_linked_one_back(bc, transactions, t) ==
    LET latest_block == get_latest_block(bc)
        new_block == Block(latest_block.index + 1, t, transactions,
                           latest_block.previous_hash)
    IN [bc EXCEPT !.chain = Append(bc.chain, mine_block(new_block, bc.difficulty))]

\* the ledger after add_block; the new block is its last block
add_block(bc, transactions, t) ==
    LET latest_block == get_latest_block(bc)
        new_block == Block(latest_block.index + 1, t, transactions, latest_block.hash)
    IN [bc EXCEPT !.chain = Append(bc.chain, mine_block(new_block, bc.difficulty))]

add_transaction(bc, transaction) ==
    [bc EXCEPT !.pending_transactions = Append(bc.pending_transactions, transaction)]

add_transaction_result(bc) == get_latest_block(bc).index + 1

\* mine_pending_transactions without the test for an empty pending list
mine_pending_transactions_always(bc, t) ==
    [add_block(bc, bc.pending_transactions, t) EXCEPT !.pending_transactions = <<>>]

\* mine_pending_transactions leaving the mined transactions pending
mine_pending_transactions_keep(bc, t) ==
    IF bc.pending_transactions = <<>> THEN bc
    ELSE add_block(bc, bc.pending_transactions, t)

mine_pending_transactions(bc, t) ==
    IF bc.pending_transactions = <<>> THEN bc
    ELSE [add_block(bc, bc.pending_transactions, t) EXCEPT !.pending_transactions = <<>>]

\* is_chain_valid that also holds every block after the first to the
\* difficulty target
is_chain_valid_mined(bc) ==
    \A i \in 2..Len(bc.chain) :
        /\ bc.chain[i].hash = calculate_hash(bc.chain[i])
        /\ bc.chain[i].previous_hash = bc.chain[i - 1].hash
        /\ LeadingZeros(bc.chain[i].hash) >= bc.difficulty

is_chain_valid(bc) ==
    \A i \in 2..Len(bc.chain) :
        /\ bc.chain[i].hash = calculate_hash(bc.chain[i])
        /\ bc.chain[i].previous_hash = bc.chain[i - 1].hash

\* item assignments d[k] = extra[k] on a dict d
Decorate(transaction, extra) ==
    [k \in DOMAIN transaction \cup DOMAIN extra |->
        IF k \in DOMAIN extra THEN extra[k] ELSE transaction[k]]

\* item assignments on the dict the block holds, no copy made
decorated_in_place(transaction, extra) ==
    [in_block |-> Decorate(transaction, extra), copy |-> Decorate(transaction, extra)]

\* transaction_copy = transaction.copy(), then item assignments on the copy:
\* the dict the block still holds, and the dict the scan returns
decorated_copy(transaction, extra) ==
    [in_block |-> transaction, copy |-> Decorate(transaction, extra)]

\* the loops "for block in chain: for transaction in block.transactions":
\* every transaction with its block, in chain order
RECURSIVE ChainEntries(_, _)
ChainEntries(chain, i) ==
    IF i > Len(chain) THEN <<>>
    ELSE [j \in 1..Len(chain[i].transactions) |->
             [transaction |-> chain[i].transactions[j], block |-> chain[i]]]
         \o ChainEntries(chain, i + 1)

\* a scan of the chain for the transactions whose item `key` is `value`,
\* decorating a copy of every hit with fields of its block (decoration: item
\* of the copy -> field of the block): the list the scan returns, and the
\* chain as the scan leaves it
scan_chain(chain, key, value, decoration) ==
    LET Hit(transaction) == Get(transaction, key) = value
        Extra(block) == [k \in DOMAIN decoration |-> block[decoration[k]]]
        HitEntry(e) == Hit(e.transaction)
        hits == SelectSeq(ChainEntries(chain, 1), HitEntry)
        Scanned(block) ==
            [block EXCEPT !.transactions =
                [j \in 1..Len(block.transactions) |->
                    IF Hit(block.transactions[j])
                    THEN decorated_copy(block.transactions[j], Extra(block)).in_block
                    ELSE block.transactions[j]]]
    IN [value |-> [n \in 1..Len(hits) |->
                      decorated_copy(hits[n].transaction, Extra(hits[n].block)).copy],
        chain |-> [i \in 1..Len(chain) |-> Scanned(chain[i])]]

get_transactions_by_user(bc, user_id) ==
    scan_chain(bc.chain, "user_id", user_id,
               [block_hash |-> "hash", timestamp |-> "timestamp"])

\* Block.to_dict
block_to_dict(b) ==
    [index |-> b.index,
     timestamp |-> b.timestamp,
     transactions |-> b.transactions,
     previous_hash |-> b.previous_hash,
     nonce |-> b.nonce,
     hash |-> b.hash]

to_dict(bc) ==
    [chain |-> [i \in 1..Len(bc.chain) |-> block_to_dict(bc.chain[i])],
     pending_transactions |-> bc.pending_transactions,
     difficulty |-> bc.difficulty]

\* data.get(key, default)
GetOr(d, k, default) == IF k \in DOMAIN d THEN d[k] ELSE default

\* from_dict leaving in every block the nonce its constructor gave it
from_dict_fresh_nonce(bc, data) ==
    [difficulty |-> GetOr(data, "difficulty", DefaultDifficulty),
     pending_transactions |-> GetOr(data, "pending_transactions", <<>>),
     chain |-> [i \in 1..Len(GetOr(data, "chain", <<>>)) |->
                  LET block_data == data.chain[i]
                      block == Block(block_data.index, block_data.timestamp,
                                     block_data.transactions, block_data.previous_hash)
                  IN [block EXCEPT !.hash = block_data.hash]]]

\* the ledger bc after from_dict(data): every block is constructed from its
\* index, timestamp, transactions and previous_hash, then given the stored
\* nonce and hash
from_dict(bc, data) ==
    [difficulty |-> GetOr(data, "difficulty", DefaultDifficulty),
     pending_transactions |-> GetOr(data, "pending_transactions", <<>>),
     chain |-> [i \in 1..Len(GetOr(data, "chain", <<>>)) |->
                  LET block_data == data.chain[i]
                      block == Block(block_data.index, block_data.timestamp,
                                     block_data.transactions, block_data.previous_hash)
                  IN [block EXCEPT !.nonce = block_data.nonce,
                                   !.hash = block_data.hash]]]

----------------------------------------------------------------------------
(* storage-works/document_storage.py *)

_generate_document_hash(content) == <<"sha256", content>>

b64encode(x) == <<"b64", x>>

b64decode(e) == e[2]

\* padding that adds nothing to a whole number of blocks
pad_to_multiple(content, block_size) ==
    LET n == (block_size - (Len(content) % block_size)) % block_size
    IN content \o [i \in 1..n |-> n]

\* Crypto.Util.Padding.pad: PKCS#7
pad(content, block_size) ==
    LET n == block_size - (Len(content) % block_size)
    IN content \o [i \in 1..n |-> n]

\* Crypto.Util.Padding.unpad: None stands for ValueError("Padding is incorrect.")
unpad(padded, block_size) ==
    IF Len(padded) = 0 \/ Len(padded) % block_size # 0 THEN None
    ELSE LET n == Last(padded)
         IN IF n < 1 \/ n > block_size THEN None
            ELSE IF \E i \in (Len(padded) - n + 1)..Len(padded) : padded[i] # n THEN None
            ELSE <<SubSeq(padded, 1, Len(padded) - n)>>

\* AES in CBC mode, one byte per cipher block: the block cipher under key k
\* is x |-> x + k (mod 256) and the chaining xor is addition (mod 256)
cbc_encrypt(plain, key, iv) ==
    LET c[i \in 0..Len(plain)] ==
            IF i = 0 THEN iv ELSE (plain[i] + c[i - 1] + key) % ByteRange
    IN [i \in 1..Len(plain) |-> c[i]]

cbc_decrypt(cipher, key, iv) ==
    [i \in 1..Len(cipher) |->
        (cipher[i] - key - (IF i = 1 THEN iv ELSE cipher[i - 1])) % ByteRange]

_encrypt_document(content, key, iv) ==
    [ct_bytes |-> cbc_encrypt(pad(content, AES_block_size), key[1], iv[1]), iv |-> iv]

\* None stands for the ValueError of unpad
_decrypt_document(encrypted_content, key, iv) ==
    unpad(cbc_decrypt(encrypted_content, key[1], iv[1]), AES_block_size)

\* the metadata record store_document builds and returns
document_metadata_of(user_id, document_name, document_content, document_type, key, iv, t) ==
    [user_id |-> user_id,
     name |-> document_name,
     type |-> document_type,
     hash |-> _generate_document_hash(document_content),
     size |-> Len(document_content),
     created_at |-> t,
     iv |-> b64encode(iv),
     encryption_key |-> b64encode(key)]

\* a dict that keeps the value a key already has
Put_if_absent(f, k, v) == [x \in DOMAIN f \cup {k} |-> IF x \in DOMAIN f THEN f[x] ELSE v]

Put(f, k, v) == [x \in DOMAIN f \cup {k} |-> IF x = k THEN v ELSE f[x]]

Remove(f, k) == [x \in DOMAIN f \ {k} |-> f[x]]

\* store_document keeping the record and file a hash already has
store_document_first_wins(md, docs, user_id, document_name, document_content, document_type, encryption_key, random_key, iv, t) ==
    LET key == IF encryption_key = None THEN random_key ELSE encryption_key
        encrypted == _encrypt_document(document_content, key, iv)
        record == document_metadata_of(user_id, document_name, document_content,
                                       document_type, key, encrypted.iv, t)
    IN IF record.hash \in DOMAIN md
       THEN [metadata |-> md, documents |-> docs, record |-> md[record.hash]]
       ELSE [metadata |-> Put(md, record.hash, record),
             documents |-> Put(docs, record.hash, encrypted.ct_bytes),
             record |-> record]

\* store_document: the store after the call, and the record returned;
\* random_key and iv are the bytes the random source gives when asked, t the clock
store_document(md, docs, user_id, document_name, document_content, document_type, encryption_key, random_key, iv, t) ==
    LET key == IF encryption_key = None THEN random_key ELSE encryption_key
        encrypted == _encrypt_document(document_content, key, iv)
        record == document_metadata_of(user_id, document_name, document_content,
                                       document_type, key, encrypted.iv, t)
    IN [metadata |-> Put(md, record.hash, record),
        documents |-> Put(docs, record.hash, encrypted.ct_bytes),
        record |-> record]

Raise(message) == [ok |-> FALSE, error |-> message]

retrieve_document(md, docs, document_hash) ==
    IF document_hash \notin DOMAIN md THEN Raise("Document not found")
    ELSE IF document_hash \notin DOMAIN docs THEN Raise("Document file not found")
    ELSE LET document_metadata == md[document_hash]
             decrypted == _decrypt_document(docs[document_hash],
                                            b64decode(document_metadata.encryption_key),
                                            b64decode(document_metadata.iv))
         IN IF decrypted = None THEN Raise("Padding is incorrect")
            ELSE [ok |-> TRUE, content |-> decrypted[1], record |-> document_metadata]

\* delete_document leaving the encrypted file where it is
delete_document_metadata_only(md, docs, document_hash) ==
    IF document_hash \notin DOMAIN md
    THEN [metadata |-> md, documents |-> docs, value |-> FALSE]
    ELSE [metadata |-> Remove(md, document_hash),
          documents |-> docs,
          value |-> TRUE]

\* delete_document: the store after the call, and the value returned
delete_document(md, docs, document_hash) ==
    IF document_hash \notin DOMAIN md
    THEN [metadata |-> md, documents |-> docs, value |-> FALSE]
    ELSE [metadata |-> Remove(md, document_hash),
          documents |-> Remove(docs, document_hash),
          value |-> TRUE]

storage_get_user_documents(md, user_id) ==
    [h \in {x \in DOMAIN md : md[x].user_id = user_id} |-> md[h]]

----------------------------------------------------------------------------
(* blockchain/persistence.py *)

\* json.dump of to_dict() into blockchain.json, overwriting it
save_blockchain(bc) == to_dict(bc)

\* a blockchain.json whose text json.load cannot parse
UnparsableFile == [unparsable |-> TRUE]

\* one stored field of a block of blockchain.json given another value
edit_block(block_data, field) ==
    CASE field = "index" -> [block_data EXCEPT !.index = 0]
      [] field = "transactions" -> [block_data EXCEPT !.transactions = <<[type |-> "forged"]>> \o @]
      [] field = "previous_hash" -> [block_data EXCEPT !.previous_hash = <<1>>]
      [] field = "hash" -> [block_data EXCEPT !.hash = <<1>>]

\* block i and every later block of the chain given the digest of its own
\* fields, and every block after i the hash of the block before it; no nonce
\* is searched
RECURSIVE rehash_from(_, _)
rehash_from(chain, i) ==
    IF i > Len(chain) THEN chain
    ELSE LET linked == IF i = 1 THEN chain[i]
                       ELSE [chain[i] EXCEPT !.previous_hash = chain[i - 1].hash]
             hashed == [linked EXCEPT !.hash = calculate_hash(linked)]
         IN rehash_from([chain EXCEPT ![i] = hashed], i + 1)

\* load_blockchain that trusts whatever the file holds
load_blockchain_no_fallback(file, t) ==
    LET blockchain_new == NewBlockchain(t)
    IN IF file = None THEN blockchain_new
       ELSE from_dict(blockchain_new, file)

\* load_blockchain: file is blockchain.json (None when there is no such file),
\* t the time the new Blockchain reads for its genesis block
load_blockchain(file, t) ==
    LET blockchain_new == NewBlockchain(t)
    IN IF file = None THEN blockchain_new
       ELSE IF file = UnparsableFile THEN blockchain_new
       ELSE from_dict(blockchain_new, file)

----------------------------------------------------------------------------
(* blockchain/auth.py *)

\* secrets.token_hex: the n-th value drawn for a purpose; values never repeat
token_hex(purpose, n) == <<purpose, n>>

\* sha256((password + salt).encode()).hexdigest(), salts having one length
_hash_password(password, salt) == <<"sha256", password, salt>>

get_user_by_session(session_token) ==
    IF session_token \notin DOMAIN sessions THEN None
    ELSE IF sessions[session_token].username \notin DOMAIN users THEN None
    ELSE users[sessions[session_token].username]

get_user_by_id(user_id) ==
    IF \E username \in DOMAIN users : users[username].user_id = user_id
    THEN users[CHOOSE username \in DOMAIN users : users[username].user_id = user_id]
    ELSE None

----------------------------------------------------------------------------
(* blockchain/evault_controller.py: the read-only calls *)

\* get_document without the comparison of the record's owner with the caller
get_document_any_owner(session_token, document_hash) ==
    LET user_data == get_user_by_session(session_token)
        r == retrieve_document(metadata, documents, document_hash)
    IN IF user_data = None THEN Raise("Invalid session")
       ELSE r

get_document(session_token, document_hash) ==
    LET user_data == get_user_by_session(session_token)
        r == retrieve_document(metadata, documents, document_hash)
    IN IF user_data = None THEN Raise("Invalid session")
       ELSE IF ~r.ok THEN r
       ELSE IF r.record.user_id # user_data.user_id THEN Raise("Access denied")
       ELSE r

\* get_user_documents answering a caller it cannot identify with an empty listing
get_user_documents_lenient(session_token) ==
    LET user_data == get_user_by_session(session_token)
    IN IF user_data = None
       THEN [ok |-> TRUE, value |-> storage_get_user_documents(metadata, None)]
       ELSE [ok |-> TRUE, value |-> storage_get_user_documents(metadata, user_data.user_id)]

get_user_documents(session_token) ==
    LET user_data == get_user_by_session(session_token)
    IN IF user_data = None THEN Raise("Invalid session")
       ELSE [ok |-> TRUE, value |-> storage_get_user_documents(metadata, user_data.user_id)]

\* get_document_history reporting only the uploads
get_document_history_uploads(session_token, document_hash) ==
    LET user_data == get_user_by_session(session_token)
        IsUpload(transaction) == transaction.type = "document_upload"
        scan == scan_chain(blockchain.chain, "document_hash", document_hash,
                           [block_hash |-> "hash", block_index |-> "index"])
    IN IF user_data = None THEN Raise("Invalid session")
       ELSE [ok |-> TRUE, value |-> SelectSeq(scan.value, IsUpload), chain |-> scan.chain]

\* chain: the chain as the call leaves it
get_document_history(session_token, document_hash) ==
    LET user_data == get_user_by_session(session_token)
        scan == scan_chain(blockchain.chain, "document_hash", document_hash,
                           [block_hash |-> "hash", block_index |-> "index"])
    IN IF user_data = None THEN Raise("Invalid session")
       ELSE [ok |-> TRUE, value |-> scan.value, chain |-> scan.chain]

get_user_transactions(session_token) ==
    LET user_data == get_user_by_session(session_token)
        scan == get_transactions_by_user(blockchain, user_data.user_id)
    IN IF user_data = None THEN Raise("Invalid session")
       ELSE [ok |-> TRUE, value |-> scan.value, chain |-> scan.chain]

verify_blockchain == is_chain_valid(blockchain)

----------------------------------------------------------------------------
(* The calls as steps of the state machine.  Every step leaves in `ret` the
   call's name and what it returned ([ok |-> TRUE, value |-> ...]) or raised
   ([ok |-> FALSE, error |-> ...]); a successful upload or transfer also
   leaves its arguments. *)

Returned(op, value) == [op |-> op, ok |-> TRUE, value |-> value]

Raised(op, result) == [op |-> op, ok |-> FALSE, error |-> result.error]

\* the IndexError of self.chain[-1] on an empty chain
IndexError == [ok |-> FALSE, error |-> "list index out of range"]

\* Crypto.Random.get_random_bytes and the iv AES.new draws: the n-th draw
get_random_bytes(n) == <<n>>

UNCHANGED_ledger == UNCHANGED <<blockchain, blockchain_file>>

UNCHANGED_store == UNCHANGED <<metadata, documents>>

UNCHANGED_auth == UNCHANGED <<users, sessions>>

\* the callers of the controller, and a caller between two calls
Callers == 1..MaxCallers

IdleCall == [pc |-> "idle", transaction |-> None, done |-> {}]

\* a call that runs from its first statement to its return with no other
\* call in progress: no caller is part-way, no list is shared
UNCHANGED_callers == UNCHANGED <<calls, pending_aliases, interleaved>>

(* Blockchain.add_transaction, called on the ledger alone *)
AddTransaction(transaction) ==
    /\ blockchain' = add_transaction(blockchain, transaction)
    \* self.chain[-1] of an empty chain raises IndexError after the append
    /\ ret' = IF blockchain.chain = <<>>
              THEN Raised("add_transaction", IndexError)
              ELSE Returned("add_transaction", add_transaction_result(blockchain'))
    /\ UNCHANGED <<blockchain_file, now, drawn>>
    /\ UNCHANGED_store /\ UNCHANGED_auth /\ UNCHANGED_callers

(* Blockchain.mine_pending_transactions, called on the ledger alone *)
MinePendingTransactions ==
    /\ IF blockchain.chain = <<>> /\ blockchain.pending_transactions # <<>>
       \* add_block reads self.chain[-1] first: IndexError, nothing changed
       THEN /\ ret' = Raised("mine_pending_transactions", IndexError)
            /\ UNCHANGED <<blockchain, now>>
       \* the clock is read only when a block is made
       ELSE \E t \in (IF blockchain.pending_transactions = <<>> THEN {now} ELSE now..MaxTime) :
            \E mined \in {mine_pending_transactions(blockchain, t)} :
               /\ blockchain' = mined
               /\ ret' = Returned("mine_pending_transactions",
                                  IF blockchain.pending_transactions = <<>> THEN None
                                  ELSE get_latest_block(mined))
               /\ now' = t
    /\ UNCHANGED <<blockchain_file, drawn>>
    /\ UNCHANGED_store /\ UNCHANGED_auth /\ UNCHANGED_callers

(* Blockchain.is_chain_valid *)
IsChainValid ==
    /\ ret' = Returned("is_chain_valid", is_chain_valid(blockchain))
    /\ UNCHANGED <<now, drawn>>
    /\ UNCHANGED_ledger /\ UNCHANGED_store /\ UNCHANGED_auth /\ UNCHANGED_callers

(* BlockchainPersistence.save_blockchain *)
SaveBlockchain ==
    /\ blockchain_file' = save_blockchain(blockchain)
    /\ ret' = Returned("save_blockchain", None)
    /\ UNCHANGED <<blockchain, now, drawn>>
    /\ UNCHANGED_store /\ UNCHANGED_auth /\ UNCHANGED_callers

(* BlockchainPersistence.load_blockchain, its result becoming the ledger in
   memory as in EVaultController.__init__ *)
LoadBlockchain ==
    \E t \in now..MaxTime :
       /\ blockchain' = load_blockchain(blockchain_file, t)
       /\ now' = t
       /\ ret' = Returned("load_blockchain", None)
       /\ UNCHANGED <<blockchain_file, drawn>>
       /\ UNCHANGED_store /\ UNCHANGED_auth /\ UNCHANGED_callers

(* blockchain.json written by someone with access to the storage directory:
   valid JSON that is not a snapshot save_blockchain wrote *)
OverwriteSnapshot(data) ==
    /\ blockchain_file' = data
    /\ ret' = Returned("overwrite_snapshot", None)
    /\ UNCHANGED <<blockchain, now, drawn>>
    /\ UNCHANGED_store /\ UNCHANGED_auth /\ UNCHANGED_callers

(* blockchain.json edited in place: one field of block i of the saved chain
   is changed and nothing else *)
EditSnapshot(i, field) ==
    /\ "chain" \in DOMAIN blockchain_file
    /\ i \in 1..Len(blockchain_file.chain)
    /\ blockchain_file' = [blockchain_file EXCEPT !.chain[i] = edit_block(@, field)]
    /\ blockchain_file' # blockchain_file
    /\ ret' = Returned("edit_snapshot", None)
    /\ UNCHANGED <<blockchain, now, drawn>>
    /\ UNCHANGED_store /\ UNCHANGED_auth /\ UNCHANGED_callers

(* blockchain.json rewritten: one field of block i of the saved chain is
   changed, then block i and every later block is given the digest of its
   fields and the hash of the block before it *)
RewriteSnapshot(i, field) ==
    /\ "chain" \in DOMAIN blockchain_file
    /\ i \in 1..Len(blockchain_file.chain)
    /\ blockchain_file' =
          [blockchain_file EXCEPT
             !.chain = rehash_from([@ EXCEPT ![i] = edit_block(@, field)], i)]
    /\ blockchain_file' # blockchain_file
    /\ ret' = Returned("rewrite_snapshot", None)
    /\ UNCHANGED <<blockchain, now, drawn>>
    /\ UNCHANGED_store /\ UNCHANGED_auth /\ UNCHANGED_callers

(* DocumentStorage.store_document, called on the store alone *)
StoreDocument(user_id, document_name, document_content, document_type, encryption_key) ==
    \E t \in now..MaxTime :
    \E stored \in {store_document(metadata, documents, user_id, document_name,
                                  document_content, document_type, encryption_key,
                                  get_random_bytes(drawn.keys + 1),
                                  get_random_bytes(drawn.ivs + 1), t)} :
       /\ metadata' = stored.metadata
       /\ documents' = stored.documents
       /\ now' = t
       /\ drawn' = [drawn EXCEPT !.keys = IF encryption_key = None THEN @ + 1 ELSE @,
                                 !.ivs = @ + 1]
       \* replaced: the record the store held for this hash when the call began
       /\ ret' = [op |-> "store_document", ok |-> TRUE, value |-> stored.record,
                  args |-> <<user_id, document_name, document_content,
                             document_type, encryption_key>>,
                  replaced |-> Get(metadata, stored.record.hash)]
       /\ UNCHANGED_ledger /\ UNCHANGED_auth /\ UNCHANGED_callers

(* DocumentStorage.retrieve_document, called on the store alone *)
RetrieveDocument(document_hash) ==
    \E r \in {retrieve_document(metadata, documents, document_hash)} :
       /\ ret' = IF r.ok THEN Returned("retrieve_document", <<r.content, r.record>>)
                 ELSE Raised("retrieve_document", r)
       /\ UNCHANGED <<now, drawn>>
       /\ UNCHANGED_ledger /\ UNCHANGED_store /\ UNCHANGED_auth /\ UNCHANGED_callers

(* delete_document that empties the store *)
DeleteDocument_clear(document_hash) ==
    /\ metadata' = <<>>
    /\ documents' = <<>>
    /\ ret' = [op |-> "delete_document", ok |-> TRUE,
               value |-> document_hash \in DOMAIN metadata,
               args |-> <<document_hash>>]
    /\ UNCHANGED <<now, drawn>>
    /\ UNCHANGED_ledger /\ UNCHANGED_auth /\ UNCHANGED_callers

(* DocumentStorage.delete_document, called on the store alone *)
DeleteDocument(document_hash) ==
    \E deleted \in {delete_document(metadata, documents, document_hash)} :
       /\ metadata' = deleted.metadata
       /\ documents' = deleted.documents
       /\ ret' = [op |-> "delete_document", ok |-> TRUE, value |-> deleted.value,
                  args |-> <<document_hash>>]
       /\ UNCHANGED <<now, drawn>>
       /\ UNCHANGED_ledger /\ UNCHANGED_auth /\ UNCHANGED_callers

(* DocumentStorage.get_user_documents, called on the store alone *)
StorageGetUserDocuments(user_id) ==
    /\ ret' = Returned("storage_get_user_documents",
                       storage_get_user_documents(metadata, user_id))
    /\ UNCHANGED <<now, drawn>>
    /\ UNCHANGED_ledger /\ UNCHANGED_store /\ UNCHANGED_auth /\ UNCHANGED_callers

\* register_user without the test for a taken username
RegisterUser_overwrite(username, password, email) ==
    /\ LET salt == token_hex("salt", drawn.salts + 1)
           user_data == [user_id |-> token_hex("user", drawn.user_ids + 1),
                         username |-> username,
                         email |-> email,
                         hashed_password |-> _hash_password(password, salt),
                         salt |-> salt,
                         role |-> "user"]
       IN /\ users' = Put(users, username, user_data)
          /\ drawn' = [drawn EXCEPT !.salts = @ + 1, !.user_ids = @ + 1]
          /\ ret' = Returned("register_user", user_data)
    /\ UNCHANGED <<sessions, now>>
    /\ UNCHANGED_ledger /\ UNCHANGED_store /\ UNCHANGED_callers

(* UserAuth.register_user *)
RegisterUser(username, password, email) ==
    /\ IF username \in DOMAIN users
       THEN /\ ret' = Raised("register_user", Raise("Username already exists"))
            /\ UNCHANGED <<users, drawn>>
       ELSE LET salt == token_hex("salt", drawn.salts + 1)
                user_data == [user_id |-> token_hex("user", drawn.user_ids + 1),
                              username |-> username,
                              email |-> email,
                              hashed_password |-> _hash_password(password, salt),
                              salt |-> salt,
                              role |-> "user"]
            IN /\ users' = Put(users, username, user_data)
               /\ drawn' = [drawn EXCEPT !.salts = @ + 1, !.user_ids = @ + 1]
               /\ ret' = Returned("register_user", user_data)
    /\ UNCHANGED <<sessions, now>>
    /\ UNCHANGED_ledger /\ UNCHANGED_store /\ UNCHANGED_callers

\* login without the comparison of the password hashes
Login_any_password(username, password) ==
    /\ IF username \notin DOMAIN users
       THEN /\ ret' = Returned("login", None)
            /\ UNCHANGED <<sessions, drawn>>
       ELSE LET session_token == token_hex("session", drawn.tokens + 1)
            IN /\ sessions' = Put(sessions, session_token,
                                  [user_id |-> users[username].user_id,
                                   username |-> username])
               /\ drawn' = [drawn EXCEPT !.tokens = @ + 1]
               /\ ret' = Returned("login", session_token)
    /\ UNCHANGED <<users, now>>
    /\ UNCHANGED_ledger /\ UNCHANGED_store /\ UNCHANGED_callers

(* UserAuth.login *)
Login(username, password) ==
    /\ IF username \notin DOMAIN users
       THEN /\ ret' = Returned("login", None)
            /\ UNCHANGED <<sessions, drawn>>
       ELSE IF _hash_password(password, users[username].salt) # users[username].hashed_password
       THEN /\ ret' = Returned("login", None)
            /\ UNCHANGED <<sessions, drawn>>
       ELSE LET session_token == token_hex("session", drawn.tokens + 1)
            IN /\ sessions' = Put(sessions, session_token,
                                  [user_id |-> users[username].user_id,
                                   username |-> username])
               /\ drawn' = [drawn EXCEPT !.tokens = @ + 1]
               /\ ret' = Returned("login", session_token)
    /\ UNCHANGED <<users, now>>
    /\ UNCHANGED_ledger /\ UNCHANGED_store /\ UNCHANGED_callers

\* logout that ends every session
Logout_all(session_token) ==
    /\ IF session_token \in DOMAIN sessions
       THEN /\ sessions' = <<>>
            /\ ret' = Returned("logout", TRUE)
       ELSE /\ ret' = Returned("logout", FALSE)
            /\ UNCHANGED sessions
    /\ UNCHANGED <<users, drawn, now>>
    /\ UNCHANGED_ledger /\ UNCHANGED_store /\ UNCHANGED_callers

(* UserAuth.logout *)
Logout(session_token) ==
    /\ IF session_token \in DOMAIN sessions
       THEN /\ sessions' = Remove(sessions, session_token)
            /\ ret' = Returned("logout", TRUE)
       ELSE /\ ret' = Returned("logout", FALSE)
            /\ UNCHANGED sessions
    /\ UNCHANGED <<users, drawn, now>>
    /\ UNCHANGED_ledger /\ UNCHANGED_store /\ UNCHANGED_callers

(* change_password that ends the sessions of the user *)
ChangePassword_ends_sessions(username, old_password, new_password) ==
    /\ IF username \notin DOMAIN users
       THEN /\ ret' = Returned("change_password", FALSE)
            /\ UNCHANGED <<users, sessions, drawn>>
       ELSE IF _hash_password(old_password, users[username].salt)
                  # users[username].hashed_password
       THEN /\ ret' = Returned("change_password", FALSE)
            /\ UNCHANGED <<users, sessions, drawn>>
       ELSE LET salt == token_hex("salt", drawn.salts + 1)
            IN /\ users' = [users EXCEPT
                               ![username].hashed_password =
                                   _hash_password(new_password, salt),
                               ![username].salt = salt]
               /\ sessions' = [s \in {x \in DOMAIN sessions :
                                         sessions[x].username # username} |-> sessions[s]]
               /\ drawn' = [drawn EXCEPT !.salts = @ + 1]
               /\ ret' = Returned("change_password", TRUE)
    /\ UNCHANGED now
    /\ UNCHANGED_ledger /\ UNCHANGED_store /\ UNCHANGED_callers

(* change_password that does not compare the old password *)
ChangePassword_unchecked(username, old_password, new_password) ==
    /\ IF username \notin DOMAIN users
       THEN /\ ret' = Returned("change_password", FALSE)
            /\ UNCHANGED <<users, drawn>>
       ELSE LET salt == token_hex("salt", drawn.salts + 1)
            IN /\ users' = [users EXCEPT
                               ![username].hashed_password =
                                   _hash_password(new_password, salt),
                               ![username].salt = salt]
               /\ drawn' = [drawn EXCEPT !.salts = @ + 1]
               /\ ret' = Returned("change_password", TRUE)
    /\ UNCHANGED <<sessions, now>>
    /\ UNCHANGED_ledger /\ UNCHANGED_store /\ UNCHANGED_callers

(* UserAuth.change_password *)
ChangePassword(username, old_password, new_password) ==
    /\ IF username \notin DOMAIN users
       THEN /\ ret' = Returned("change_password", FALSE)
            /\ UNCHANGED <<users, drawn>>
       ELSE IF _hash_password(old_password, users[username].salt)
                  # users[username].hashed_password
       THEN /\ ret' = Returned("change_password", FALSE)
            /\ UNCHANGED <<users, drawn>>
       ELSE LET salt == token_hex("salt", drawn.salts + 1)
            IN /\ users' = [users EXCEPT
                               ![username].hashed_password =
                                   _hash_password(new_password, salt),
                               ![username].salt = salt]
               /\ drawn' = [drawn EXCEPT !.salts = @ + 1]
               /\ ret' = Returned("change_password", TRUE)
    /\ UNCHANGED <<sessions, now>>
    /\ UNCHANGED_ledger /\ UNCHANGED_store /\ UNCHANGED_callers

(* upload_document that leaves its transaction pending *)
UploadDocument_unsealed(session_token, document_name, document_content, document_type) ==
    LET user_data == get_user_by_session(session_token)
    IN /\ IF user_data = None
          THEN /\ ret' = Raised("upload_document", Raise("Invalid session"))
               /\ UNCHANGED <<now, drawn>>
               /\ UNCHANGED_ledger /\ UNCHANGED_store
          ELSE \E stored \in {store_document(metadata, documents, user_data.user_id,
                                                document_name, document_content,
                                                document_type, None,
                                                get_random_bytes(drawn.keys + 1),
                                                get_random_bytes(drawn.ivs + 1), now)} :
               \E transaction \in {[type |-> "document_upload",
                                     user_id |-> user_data.user_id,
                                     document_hash |-> stored.record.hash,
                                     document_name |-> document_name,
                                     document_type |-> document_type,
                                     timestamp |-> now]} :
               \E t \in now..MaxTime :
               \E mined \in {add_transaction(blockchain, transaction)} :
                  /\ metadata' = stored.metadata
                  /\ documents' = stored.documents
                  /\ blockchain' = mined
                  /\ blockchain_file' = save_blockchain(mined)
                  /\ now' = t
                  /\ drawn' = [drawn EXCEPT !.keys = @ + 1, !.ivs = @ + 1]
                  /\ ret' = [op |-> "upload_document", ok |-> TRUE,
                             value |-> stored.record,
                             args |-> <<session_token, document_name,
                                        document_content, document_type>>]
       /\ UNCHANGED_auth /\ UNCHANGED_callers

(* upload_document that does not save the ledger *)
UploadDocument_unsaved(session_token, document_name, document_content, document_type) ==
    LET user_data == get_user_by_session(session_token)
    IN /\ IF user_data = None
          THEN /\ ret' = Raised("upload_document", Raise("Invalid session"))
               /\ UNCHANGED <<now, drawn>>
               /\ UNCHANGED_ledger /\ UNCHANGED_store
          ELSE \E stored \in {store_document(metadata, documents, user_data.user_id,
                                                document_name, document_content,
                                                document_type, None,
                                                get_random_bytes(drawn.keys + 1),
                                                get_random_bytes(drawn.ivs + 1), now)} :
               \E transaction \in {[type |-> "document_upload",
                                     user_id |-> user_data.user_id,
                                     document_hash |-> stored.record.hash,
                                     document_name |-> document_name,
                                     document_type |-> document_type,
                                     timestamp |-> now]} :
               \E t \in now..MaxTime :
               \E mined \in {mine_pending_transactions(
                                 add_transaction(blockchain, transaction), t)} :
                  /\ metadata' = stored.metadata
                  /\ documents' = stored.documents
                  /\ blockchain' = mined
                  /\ blockchain_file' = blockchain_file
                  /\ now' = t
                  /\ drawn' = [drawn EXCEPT !.keys = @ + 1, !.ivs = @ + 1]
                  /\ ret' = [op |-> "upload_document", ok |-> TRUE,
                             value |-> stored.record,
                             args |-> <<session_token, document_name,
                                        document_content, document_type>>]
       /\ UNCHANGED_auth /\ UNCHANGED_callers

(* EVaultController.upload_document *)
UploadDocument(session_token, document_name, document_content, document_type) ==
    LET user_data == get_user_by_session(session_token)
    IN /\ IF user_data = None
          THEN /\ ret' = Raised("upload_document", Raise("Invalid session"))
               /\ UNCHANGED <<now, drawn>>
               /\ UNCHANGED_ledger /\ UNCHANGED_store
          ELSE \E stored \in {store_document(metadata, documents, user_data.user_id,
                                                document_name, document_content,
                                                document_type, None,
                                                get_random_bytes(drawn.keys + 1),
                                                get_random_bytes(drawn.ivs + 1), now)} :
               \E transaction \in {[type |-> "document_upload",
                                     user_id |-> user_data.user_id,
                                     document_hash |-> stored.record.hash,
                                     document_name |-> document_name,
                                     document_type |-> document_type,
                                     timestamp |-> now]} :
               \E t \in now..MaxTime :
               \E mined \in {mine_pending_transactions(
                                 add_transaction(blockchain, transaction), t)} :
                  /\ metadata' = stored.metadata
                  /\ documents' = stored.documents
                  /\ blockchain' = mined
                  /\ blockchain_file' = save_blockchain(mined)
                  /\ now' = t
                  /\ drawn' = [drawn EXCEPT !.keys = @ + 1, !.ivs = @ + 1]
                  /\ ret' = [op |-> "upload_document", ok |-> TRUE,
                             value |-> stored.record,
                             args |-> <<session_token, document_name,
                                        document_content, document_type>>]
       /\ UNCHANGED_auth /\ UNCHANGED_callers

(* EVaultController.get_document *)
GetDocument(session_token, document_hash) ==
    \E r \in {get_document(session_token, document_hash)} :
       /\ ret' = IF r.ok THEN Returned("get_document", <<r.content, r.record>>)
                 ELSE Raised("get_document", r)
       /\ UNCHANGED <<now, drawn>>
       /\ UNCHANGED_ledger /\ UNCHANGED_store /\ UNCHANGED_auth /\ UNCHANGED_callers

\* transfer_document without the comparison of the record's owner with the caller
TransferDocument_any_owner(session_token, document_hash, recipient_username) ==
    LET user_data == get_user_by_session(session_token)
        Fails(result) == /\ ret' = Raised("transfer_document", result)
                         /\ UNCHANGED <<now, drawn>>
                         /\ UNCHANGED_ledger /\ UNCHANGED_store
    IN /\ IF user_data = None THEN Fails(Raise("Invalid session"))
          ELSE \E r \in {retrieve_document(metadata, documents, document_hash)} :
          IF ~r.ok THEN Fails(r)
          ELSE IF recipient_username \notin DOMAIN users
          THEN Fails(Raise("Recipient not found"))
          ELSE \E recipient_user \in {users[recipient_username]} :
               \E document_metadata \in {r.record} :
               \E transaction \in {[type |-> "document_transfer",
                                     sender_id |-> user_data.user_id,
                                     recipient_id |-> recipient_user.user_id,
                                     document_hash |-> document_hash,
                                     document_name |-> document_metadata.name,
                                     timestamp |-> now]} :
               \E document_content \in
                     {retrieve_document(metadata, documents, document_hash).content} :
               \E stored \in {store_document(metadata, documents, recipient_user.user_id,
                                            document_metadata.name, document_content,
                                            document_metadata.type,
                                            b64decode(document_metadata.encryption_key),
                                            get_random_bytes(drawn.keys + 1),
                                            get_random_bytes(drawn.ivs + 1), now)} :
               \E t \in now..MaxTime :
               \E mined \in {mine_pending_transactions(
                                 add_transaction(blockchain, transaction), t)} :
                  /\ metadata' = stored.metadata
                  /\ documents' = stored.documents
                  /\ blockchain' = mined
                  /\ blockchain_file' = save_blockchain(mined)
                  /\ now' = t
                  /\ drawn' = [drawn EXCEPT !.ivs = @ + 1]
                  /\ ret' = [op |-> "transfer_document", ok |-> TRUE,
                             value |-> stored.record,
                             args |-> <<session_token, document_hash, recipient_username>>,
                             document_content |-> document_content]
       /\ UNCHANGED_auth /\ UNCHANGED_callers

(* transfer_document storing the document again without passing its key *)
TransferDocument_fresh_key(session_token, document_hash, recipient_username) ==
    LET user_data == get_user_by_session(session_token)
        Fails(result) == /\ ret' = Raised("transfer_document", result)
                         /\ UNCHANGED <<now, drawn>>
                         /\ UNCHANGED_ledger /\ UNCHANGED_store
    IN /\ IF user_data = None THEN Fails(Raise("Invalid session"))
          ELSE \E r \in {retrieve_document(metadata, documents, document_hash)} :
          IF ~r.ok THEN Fails(r)
          ELSE IF r.record.user_id # user_data.user_id THEN Fails(Raise("Access denied"))
          ELSE IF recipient_username \notin DOMAIN users
          THEN Fails(Raise("Recipient not found"))
          ELSE \E recipient_user \in {users[recipient_username]} :
               \E document_metadata \in {r.record} :
               \E transaction \in {[type |-> "document_transfer",
                                     sender_id |-> user_data.user_id,
                                     recipient_id |-> recipient_user.user_id,
                                     document_hash |-> document_hash,
                                     document_name |-> document_metadata.name,
                                     timestamp |-> now]} :
               \E document_content \in
                     {retrieve_document(metadata, documents, document_hash).content} :
               \E stored \in {store_document(metadata, documents, recipient_user.user_id,
                                            document_metadata.name, document_content,
                                            document_metadata.type,
                                            None,
                                            get_random_bytes(drawn.keys + 1),
                                            get_random_bytes(drawn.ivs + 1), now)} :
               \E t \in now..MaxTime :
               \E mined \in {mine_pending_transactions(
                                 add_transaction(blockchain, transaction), t)} :
                  /\ metadata' = stored.metadata
                  /\ documents' = stored.documents
                  /\ blockchain' = mined
                  /\ blockchain_file' = save_blockchain(mined)
                  /\ now' = t
                  /\ drawn' = [drawn EXCEPT !.ivs = @ + 1, !.keys = @ + 1]
                  /\ ret' = [op |-> "transfer_document", ok |-> TRUE,
                             value |-> stored.record,
                             args |-> <<session_token, document_hash, recipient_username>>,
                             document_content |-> document_content]
       /\ UNCHANGED_auth /\ UNCHANGED_callers

(* transfer_document recording sender and recipient the wrong way round *)
TransferDocument_swapped_ids(session_token, document_hash, recipient_username) ==
    LET user_data == get_user_by_session(session_token)
        Fails(result) == /\ ret' = Raised("transfer_document", result)
                         /\ UNCHANGED <<now, drawn>>
                         /\ UNCHANGED_ledger /\ UNCHANGED_store
    IN /\ IF user_data = None THEN Fails(Raise("Invalid session"))
          ELSE \E r \in {retrieve_document(metadata, documents, document_hash)} :
          IF ~r.ok THEN Fails(r)
          ELSE IF r.record.user_id # user_data.user_id THEN Fails(Raise("Access denied"))
          ELSE IF recipient_username \notin DOMAIN users
          THEN Fails(Raise("Recipient not found"))
          ELSE \E recipient_user \in {users[recipient_username]} :
               \E document_metadata \in {r.record} :
               \E transaction \in {[type |-> "document_transfer",
                                     sender_id |-> recipient_user.user_id,
                                     recipient_id |-> user_data.user_id,
                                     document_hash |-> document_hash,
                                     document_name |-> document_metadata.name,
                                     timestamp |-> now]} :
               \E document_content \in
                     {retrieve_document(metadata, documents, document_hash).content} :
               \E stored \in {store_document(metadata, documents, recipient_user.user_id,
                                            document_metadata.name, document_content,
                                            document_metadata.type,
                                            b64decode(document_metadata.encryption_key),
                                            get_random_bytes(drawn.keys + 1),
                                            get_random_bytes(drawn.ivs + 1), now)} :
               \E t \in now..MaxTime :
               \E mined \in {mine_pending_transactions(
                                 add_transaction(blockchain, transaction), t)} :
                  /\ metadata' = stored.metadata
                  /\ documents' = stored.documents
                  /\ blockchain' = mined
                  /\ blockchain_file' = save_blockchain(mined)
                  /\ now' = t
                  /\ drawn' = [drawn EXCEPT !.ivs = @ + 1]
                  /\ ret' = [op |-> "transfer_document", ok |-> TRUE,
                             value |-> stored.record,
                             args |-> <<session_token, document_hash, recipient_username>>,
                             document_content |-> document_content]
       /\ UNCHANGED_auth /\ UNCHANGED_callers

(* EVaultController.transfer_document *)
TransferDocument(session_token, document_hash, recipient_username) ==
    LET user_data == get_user_by_session(session_token)
        Fails(result) == /\ ret' = Raised("transfer_document", result)
                         /\ UNCHANGED <<now, drawn>>
                         /\ UNCHANGED_ledger /\ UNCHANGED_store
    IN /\ IF user_data = None THEN Fails(Raise("Invalid session"))
          ELSE \E r \in {retrieve_document(metadata, documents, document_hash)} :
          IF ~r.ok THEN Fails(r)
          ELSE IF r.record.user_id # user_data.user_id THEN Fails(Raise("Access denied"))
          ELSE IF recipient_username \notin DOMAIN users
          THEN Fails(Raise("Recipient not found"))
          ELSE \E recipient_user \in {users[recipient_username]} :
               \E document_metadata \in {r.record} :
               \E transaction \in {[type |-> "document_transfer",
                                     sender_id |-> user_data.user_id,
                                     recipient_id |-> recipient_user.user_id,
                                     document_hash |-> document_hash,
                                     document_name |-> document_metadata.name,
                                     timestamp |-> now]} :
               \E document_content \in
                     {retrieve_document(metadata, documents, document_hash).content} :
               \E stored \in {store_document(metadata, documents, recipient_user.user_id,
                                            document_metadata.name, document_content,
                                            document_metadata.type,
                                            b64decode(document_metadata.encryption_key),
                                            get_random_bytes(drawn.keys + 1),
                                            get_random_bytes(drawn.ivs + 1), now)} :
               \E t \in now..MaxTime :
               \E mined \in {mine_pending_transactions(
                                 add_transaction(blockchain, transaction), t)} :
                  /\ metadata' = stored.metadata
                  /\ documents' = stored.documents
                  /\ blockchain' = mined
                  /\ blockchain_file' = save_blockchain(mined)
                  /\ now' = t
                  /\ drawn' = [drawn EXCEPT !.ivs = @ + 1]
                  /\ ret' = [op |-> "transfer_document", ok |-> TRUE,
                             value |-> stored.record,
                             args |-> <<session_token, document_hash, recipient_username>>,
                             document_content |-> document_content]
       /\ UNCHANGED_auth /\ UNCHANGED_callers

(* EVaultController.get_user_documents *)
GetUserDocuments(session_token) ==
    \E r \in {get_user_documents(session_token)} :
       /\ ret' = IF r.ok THEN Returned("get_user_documents", r.value)
                 ELSE Raised("get_user_documents", r)
       /\ UNCHANGED <<now, drawn>>
       /\ UNCHANGED_ledger /\ UNCHANGED_store /\ UNCHANGED_auth /\ UNCHANGED_callers

(* EVaultController.get_document_history *)
GetDocumentHistory(session_token, document_hash) ==
    \E r \in {get_document_history(session_token, document_hash)} :
       /\ ret' = IF r.ok THEN Returned("get_document_history", r.value)
                 ELSE Raised("get_document_history", r)
       /\ blockchain' = IF r.ok THEN [blockchain EXCEPT !.chain = r.chain]
                        ELSE blockchain
       /\ UNCHANGED <<blockchain_file, now, drawn>>
       /\ UNCHANGED_store /\ UNCHANGED_auth /\ UNCHANGED_callers

(* EVaultController.get_user_transactions *)
GetUserTransactions(session_token) ==
    \E r \in {get_user_transactions(session_token)} :
       /\ ret' = IF r.ok THEN Returned("get_user_transactions", r.value)
                 ELSE Raised("get_user_transactions", r)
       /\ blockchain' = IF r.ok THEN [blockchain EXCEPT !.chain = r.chain]
                        ELSE blockchain
       /\ UNCHANGED <<blockchain_file, now, drawn>>
       /\ UNCHANGED_store /\ UNCHANGED_auth /\ UNCHANGED_callers

(* EVaultController.verify_blockchain *)
VerifyBlockchain ==
    /\ ret' = Returned("verify_blockchain", verify_blockchain)
    /\ UNCHANGED <<now, drawn>>
    /\ UNCHANGED_ledger /\ UNCHANGED_store /\ UNCHANGED_auth /\ UNCHANGED_callers

----------------------------------------------------------------------------
(* Inputs *)

Usernames == 1..MaxUsers

Passwords == {"pw1", "pw2"}

Emails == {"a@x"}

\* the tokens a caller may present: every token issued so far, and one never issued
SessionTokens == {token_hex("session", n) : n \in 0..drawn.tokens}

DocumentNames == {"greet.txt"}

DocumentTypes == {"text/plain"}

\* the byte strings of length at most n made of byte b
BytesUpTo(n, b) == {[i \in 1..len |-> b] : len \in 0..n}

VaultContents == BytesUpTo(MaxBytes, 104)

VaultHashes == {_generate_document_hash(c) : c \in VaultContents}

----------------------------------------------------------------------------
(* The vault: every call goes through EVaultController *)

Init ==
    /\ blockchain = NewBlockchain(0)
    /\ blockchain_file = None
    /\ users = <<>>
    /\ sessions = <<>>
    /\ metadata = <<>>
    /\ documents = <<>>
    /\ now = 0
    /\ drawn = [user_ids |-> 0, salts |-> 0, tokens |-> 0, keys |-> 0, ivs |-> 0]
    /\ ret = [op |-> "init", ok |-> TRUE, value |-> None]
    /\ calls = [c \in Callers |-> IdleCall]
    /\ pending_aliases = {}
    /\ interleaved = FALSE

ChainBound == Len(blockchain.chain) <= MaxChain

SessionBound == drawn.tokens <= MaxSessions

Next ==
    \/ \E u \in Usernames, e \in Emails : RegisterUser(u, "pw1", e)
    \/ \E u \in Usernames, p \in Passwords : Login(u, p) /\ SessionBound'
    \/ \E s \in SessionTokens : Logout(s)
    \/ \E s \in SessionTokens, n \in DocumentNames, c \in VaultContents,
          ty \in DocumentTypes : UploadDocument(s, n, c, ty) /\ ChainBound'
    \/ \E s \in SessionTokens, h \in VaultHashes : GetDocument(s, h)
    \/ \E s \in SessionTokens, h \in VaultHashes, u \in Usernames :
          TransferDocument(s, h, u) /\ ChainBound'
    \/ \E s \in SessionTokens, h \in VaultHashes : GetDocumentHistory(s, h)
    \/ \E s \in SessionTokens : GetUserDocuments(s)
    \/ \E s \in SessionTokens : GetUserTransactions(s)

Spec == Init /\ [][Next]_vars

\* C3: a successful transfer_document(sender session, h, recipient) to a
\* recipient other than the sender moves the right to retrieve h: afterwards
\* get_document(sender session, h) raises "Access denied", and get_document
\* under any session of the recipient returns the content get_document
\* returned to the sender before the transfer.
TransferMovesRetrieval ==
    [][\A s \in SessionTokens, h \in VaultHashes, recipient \in Usernames :
          (/\ ret'.op = "transfer_document"
           /\ ret'.ok
           /\ ret'.args = <<s, h, recipient>>
           /\ users[recipient].user_id # get_user_by_session(s).user_id)
          => LET before == get_document(s, h)
             IN /\ before.ok
                /\ get_document(s, h)' = Raise("Access denied")
                /\ \A s2 \in SessionTokens :
                      (s2 \in DOMAIN sessions' /\ sessions'[s2].username = recipient)
                      => /\ get_document(s2, h)'.ok
                         /\ get_document(s2, h)'.content = before.content
                         /\ get_document(s2, h)'.content = ret'.document_content]_vars

\* a non-empty document has just been transferred to another user, who is logged in
TransferMovesRetrievalWitness ==
    /\ ret.op = "transfer_document"
    /\ ret.ok
    /\ users[ret.args[3]].user_id # get_user_by_session(ret.args[1]).user_id
    /\ ret.document_content # <<>>
    /\ \E s2 \in DOMAIN sessions :
          /\ sessions[s2].username = ret.args[3]
          /\ get_document(s2, ret.args[2]).ok
    /\ ~get_document(ret.args[1], ret.args[2]).ok

\* C4: get_document(session, h) returns content only when the session resolves
\* to a user and the store's record for h names that user as owner; otherwise
\* it returns no content and raises "Invalid session" (session unresolved),
\* "Document not found" (session resolved, hash unknown) or "Access denied"
\* (session resolved, hash known, another owner).
GetDocumentOnlyForOwner ==
    \A s \in SessionTokens, h \in VaultHashes :
        LET r == get_document(s, h)
            user_data == get_user_by_session(s)
        IN /\ r.ok => /\ user_data # None
                      /\ h \in DOMAIN metadata
                      /\ metadata[h].user_id = user_data.user_id
                      /\ _generate_document_hash(r.content) = h
           /\ ~r.ok => /\ "content" \notin DOMAIN r
                       /\ r.error = IF user_data = None THEN "Invalid session"
                                    ELSE IF h \notin DOMAIN metadata
                                    THEN "Document not found"
                                    ELSE "Access denied"
                       /\ r.error = "Access denied"
                             => metadata[h].user_id # user_data.user_id
           /\ ret.op = "get_document" /\ ret.ok
                 => \E s1 \in DOMAIN sessions :
                       metadata[ret.value[2].hash].user_id = sessions[s1].user_id

\* one state shows the four outcomes: a logged-in owner, a logged-in user who is
\* not the owner, a hash the store does not know and a token that resolves to
\* nobody; get_document has just been refused to the user who is not the owner
GetDocumentOnlyForOwnerWitness ==
    /\ ret.op = "get_document"
    /\ ~ret.ok
    /\ ret.error = "Access denied"
    /\ \E s1, s2 \in DOMAIN sessions, h1, h2 \in VaultHashes :
          /\ get_document(s1, h1).ok
          /\ get_document(s2, h1) = Raise("Access denied")
          /\ get_document(s1, h2) = Raise("Document not found")
    /\ \E s \in SessionTokens, h \in DOMAIN metadata :
          get_document(s, h) = Raise("Invalid session")

\* C12: each call of the controller that takes a session (upload_document,
\* get_document, transfer_document, get_user_documents, get_document_history,
\* get_user_transactions), made with a token that does not resolve to a user,
\* raises "Invalid session" and leaves the document store, the ledger in
\* memory, blockchain.json, the users and the sessions as they were.
UnresolvedTokenIsRefused ==
    [][ret'.op \in {"upload_document", "get_document", "transfer_document",
                     "get_user_documents", "get_document_history",
                     "get_user_transactions"} =>
       \A s \in SessionTokens :
          get_user_by_session(s) = None
          => LET Refused == /\ ~ret'.ok
                            /\ ret'.error = "Invalid session"
                            /\ UNCHANGED <<metadata, documents, blockchain,
                                           blockchain_file, users, sessions>>
                 Call(op) == ret'.op = op
             IN /\ \A n \in DocumentNames, c \in VaultContents, ty \in DocumentTypes :
                      Call("upload_document") /\ UploadDocument(s, n, c, ty) => Refused
                /\ \A h \in VaultHashes :
                      /\ Call("get_document") /\ GetDocument(s, h) => Refused
                      /\ Call("get_document_history") /\ GetDocumentHistory(s, h)
                            => Refused
                      /\ \A u \in Usernames :
                            Call("transfer_document") /\ TransferDocument(s, h, u)
                            => Refused
                /\ Call("get_user_documents") /\ GetUserDocuments(s) => Refused
                /\ Call("get_user_transactions") /\ GetUserTransactions(s) => Refused]_vars

\* a user with a stored document has logged out, and a transfer under the
\* token that was theirs has just been refused
UnresolvedTokenIsRefusedWitness ==
    /\ ret.op = "transfer_document"
    /\ ~ret.ok
    /\ ret.error = "Invalid session"
    /\ sessions = <<>>
    /\ drawn.tokens >= 1
    /\ \E h \in DOMAIN metadata, u \in DOMAIN users : metadata[h].user_id = users[u].user_id
    /\ Len(blockchain.chain) >= 2

\* C13: transfer_document under a session that resolves to a user who is not
\* the owner recorded for the hash raises "Access denied"; under the owner's
\* session with a recipient username that is not registered it raises
\* "Recipient ... not found"; in both cases the store (record and ciphertext),
\* the chain, the pending list and blockchain.json are left as they were.
RefusedTransferChangesNothing ==
    [][ret'.op = "transfer_document" =>
       \A s \in SessionTokens, h \in VaultHashes, u \in Usernames :
          LET user_data == get_user_by_session(s)
              Refused(message) ==
                  /\ ~ret'.ok
                  /\ ret'.error = message
                  /\ UNCHANGED <<metadata, documents, blockchain, blockchain_file>>
          IN (/\ user_data # None
              /\ h \in DOMAIN metadata
              /\ TransferDocument(s, h, u))
             => /\ metadata[h].user_id # user_data.user_id => Refused("Access denied")
                /\ (metadata[h].user_id = user_data.user_id /\ u \notin DOMAIN users)
                      => Refused("Recipient not found")]_vars

\* the owner of a stored document has just tried to transfer it to a username
\* nobody has registered
RefusedTransferChangesNothingWitness ==
    /\ ret.op = "transfer_document"
    /\ ~ret.ok
    /\ ret.error = "Recipient not found"
    /\ \E s \in DOMAIN sessions, h \in DOMAIN metadata :
          /\ get_document(s, h).ok
          /\ get_document_history(s, h).value # <<>>
    /\ \E u \in Usernames : u \notin DOMAIN users

\* C7: get_document_history(H) lists, in chain order, one entry for each
\* successful upload_document or transfer_document of hash H and nothing else:
\* it is empty on the new ledger, a successful upload or transfer of H appends
\* one entry of the call's type, taken from the block the call mined, and no
\* other call changes it (the history is read from the chain alone, so only a
\* step that changes the chain has to be compared).
HistoryIsUploadsAndTransfers ==
    [][\A s \in SessionTokens, h \in VaultHashes :
          /\ Len(blockchain.chain) = 1 /\ get_document_history(s, h).ok
                => get_document_history(s, h).value = <<>>
          /\ \/ blockchain'.chain = blockchain.chain
             \/ \A called \in {get_document_history(s, h)} :
                \A called_after \in {get_document_history(s, h)'} :
                (called.ok /\ called_after.ok)
                => LET before == called.value
                       after == called_after.value
                       tip == get_latest_block(blockchain')
                       type == IF ret'.op = "upload_document" THEN "document_upload"
                               ELSE "document_transfer"
                   IN IF /\ ret'.op \in {"upload_document", "transfer_document"}
                         /\ ret'.ok
                         /\ ret'.value.hash = h
                      THEN /\ Len(after) = Len(before) + 1
                           /\ SubSeq(after, 1, Len(before)) = before
                           /\ Last(after).type = type
                           /\ Last(after).document_hash = h
                           /\ Last(after).block_index = tip.index
                           /\ Last(after).block_hash = tip.hash
                           /\ tip.index = Len(blockchain.chain)
                      ELSE after = before]_vars

\* the history of a document uploaded once and then transferred has just been
\* read: two entries, the upload and then the transfer
HistoryIsUploadsAndTransfersWitness ==
    /\ ret.op = "get_document_history"
    /\ ret.ok
    /\ Len(ret.value) = 2
    /\ ret.value[1].type = "document_upload"
    /\ ret.value[2].type = "document_transfer"
    /\ ret.value[1].document_hash = ret.value[2].document_hash
    /\ ret.value[1].block_index < ret.value[2].block_index
    /\ ret.value[1].user_id = ret.value[2].sender_id
    /\ ret.value[2].recipient_id # ret.value[2].sender_id

\* C9: a successful upload_document or transfer_document appends one block to
\* the chain, the block holds one transaction, the record of that call, and
\* the pending list is empty when the call returns.
OneBlockOneTransactionPerCall ==
    [][(ret'.op \in {"upload_document", "transfer_document"} /\ ret'.ok)
       => LET tip == get_latest_block(blockchain')
          IN /\ blockchain'.chain = Append(blockchain.chain, tip)
             /\ Len(tip.transactions) = 1
             /\ tip.transactions[1].document_hash = ret'.value.hash
             /\ tip.transactions[1].document_name = ret'.value.name
             /\ IF ret'.op = "upload_document"
                THEN /\ tip.transactions[1].type = "document_upload"
                     /\ tip.transactions[1].user_id = ret'.value.user_id
                ELSE /\ tip.transactions[1].type = "document_transfer"
                     /\ tip.transactions[1].recipient_id = ret'.value.user_id
                     /\ tip.transactions[1].sender_id
                           = get_user_by_session(ret'.args[1]).user_id
             /\ blockchain'.pending_transactions = <<>>
             /\ blockchain_file' = to_dict(blockchain')]_vars

\* an upload and then a transfer have each mined a block of one transaction
OneBlockOneTransactionPerCallWitness ==
    /\ ret.op = "transfer_document"
    /\ ret.ok
    /\ Len(blockchain.chain) = 3
    /\ blockchain.chain[2].transactions[1].type = "document_upload"
    /\ blockchain.chain[3].transactions[1].type = "document_transfer"
    /\ blockchain.pending_transactions = <<>>

\* C29: when a successful upload_document or transfer_document has returned,
\* blockchain.json holds the ledger in memory: load_blockchain gives a ledger
\* with the same chain, pending transactions and difficulty, so a controller
\* constructed afterwards on the same storage starts with the chain the call
\* produced.
SnapshotFollowsEveryWrite ==
    (ret.op \in {"upload_document", "transfer_document"} /\ ret.ok) =>
       /\ blockchain_file # None
       /\ \A t \in now..MaxTime :
             \A loaded \in {load_blockchain(blockchain_file, t)} :
                /\ loaded.chain = blockchain.chain
                /\ loaded.pending_transactions = blockchain.pending_transactions
                /\ loaded.difficulty = blockchain.difficulty

\* a transfer has just returned after an upload: the file holds the three
\* blocks of the ledger, the last one holding the transfer
SnapshotFollowsEveryWriteWitness ==
    /\ ret.op = "transfer_document"
    /\ ret.ok
    /\ blockchain_file # None
    /\ Len(blockchain_file.chain) = 3
    /\ blockchain_file.chain[3].transactions[1].type = "document_transfer"
    /\ blockchain_file.chain[3].nonce > 0

\* C23: get_user_transactions returns, in chain order, every transaction of
\* the chain in which the session's user is the actor: the uploads whose
\* user_id is the user and the transfers whose sender_id is the user.
UserTransactionsAreUploadsAndSentTransfers ==
    [][(ret'.op = "get_user_transactions" /\ ret'.ok) =>
          \A s \in SessionTokens :
             GetUserTransactions(s) =>
                \A user_id \in {get_user_by_session(s).user_id} :
                   LET IsActor(e) == \/ Get(e.transaction, "user_id") = user_id
                                     \/ Get(e.transaction, "sender_id") = user_id
                       acted == SelectSeq(ChainEntries(blockchain.chain, 1), IsActor)
                   IN /\ Len(ret'.value) = Len(acted)
                      /\ \A n \in 1..Len(acted) :
                            /\ ret'.value[n].type = acted[n].transaction.type
                            /\ ret'.value[n].document_hash
                                 = acted[n].transaction.document_hash
                            /\ ret'.value[n].block_hash = acted[n].block.hash]_vars

----------------------------------------------------------------------------
(* The ledger alone: Blockchain called directly *)

LedgerUserIds == {token_hex("user", n) : n \in 1..MaxUsers}

LedgerTransactions ==
    {[type |-> "document_upload", user_id |-> u,
      document_hash |-> _generate_document_hash(<<>>),
      document_name |-> "greet.txt", document_type |-> "text/plain",
      timestamp |-> now] : u \in LedgerUserIds}

LedgerChainBound == Len(blockchain.chain) <= MaxLedgerChain

PendingBound == Len(blockchain.pending_transactions) <= MaxPending

NextLedger ==
    \/ \E transaction \in LedgerTransactions : AddTransaction(transaction) /\ PendingBound'
    \/ MinePendingTransactions /\ LedgerChainBound'
    \/ IsChainValid

SpecLedger == Init /\ [][NextLedger]_vars

\* C1: every ledger reached from the genesis-only ledger by add_transaction and
\* mine_pending_transactions calls is valid: is_chain_valid is true of it, and
\* every call of is_chain_valid returns True.
ReachableLedgerIsValid ==
    /\ is_chain_valid(blockchain)
    /\ ret.op = "is_chain_valid" => ret.value = TRUE

\* three blocks mined, more transactions waiting, and is_chain_valid just called
ReachableLedgerIsValidWitness ==
    /\ Len(blockchain.chain) >= 3
    /\ blockchain.pending_transactions # <<>>
    /\ \A i \in 2..Len(blockchain.chain) : blockchain.chain[i].nonce > 0
    /\ ret.op = "is_chain_valid"

\* C2: in a valid ledger, changing one stored field (index, timestamp,
\* transactions, previous_hash, nonce or hash) of one block, whichever block it
\* is, makes is_chain_valid false.
AnySingleFieldChangeInvalidates ==
    is_chain_valid(blockchain) =>
        \A i \in 1..Len(blockchain.chain) :
            LET b == blockchain.chain[i]
                changed == {[b EXCEPT !.index = @ + 1],
                            [b EXCEPT !.timestamp = @ + 1],
                            [b EXCEPT !.transactions = <<[type |-> "forged"]>> \o @],
                            [b EXCEPT !.previous_hash = <<1>>],
                            [b EXCEPT !.nonce = @ + 1],
                            [b EXCEPT !.hash = <<1>>]}
            IN \A c \in changed :
                  ~is_chain_valid([blockchain EXCEPT !.chain[i] = c])

\* C10: mine_pending_transactions with nothing pending returns None and leaves
\* the chain, the pending list and the difficulty as they were.
MineNothingIsNoOp ==
    [][(ret'.op = "mine_pending_transactions" /\ blockchain.pending_transactions = <<>>)
          => /\ ret'.value = None
             /\ blockchain'.chain = blockchain.chain
             /\ blockchain'.pending_transactions = <<>>
             /\ blockchain'.difficulty = blockchain.difficulty]_vars

\* mine_pending_transactions has returned None on a ledger that has mined blocks
MineNothingIsNoOpWitness ==
    /\ ret.op = "mine_pending_transactions"
    /\ ret.value = None
    /\ blockchain.pending_transactions = <<>>
    /\ Len(blockchain.chain) >= 2

\* C11: the block mine_pending_transactions appends when transactions are
\* pending has a stored hash that begins with at least `difficulty` zero hex
\* digits and is the digest of its stored index, timestamp, transactions,
\* previous_hash and nonce; the call returns that block.
MinedBlockMeetsDifficulty ==
    [][(ret'.op = "mine_pending_transactions" /\ blockchain.pending_transactions # <<>>)
          => LET new_block == get_latest_block(blockchain')
             IN /\ Len(blockchain'.chain) = Len(blockchain.chain) + 1
                /\ ret'.value = new_block
                /\ new_block.transactions = blockchain.pending_transactions
                /\ LeadingZeros(new_block.hash) >= blockchain.difficulty
                /\ new_block.hash = <<new_block.index, new_block.timestamp,
                                      new_block.transactions, new_block.previous_hash,
                                      new_block.nonce>>]_vars

\* a block of two transactions has just been mined, and finding its hash took
\* more than one change of the nonce
MinedBlockMeetsDifficultyWitness ==
    /\ ret.op = "mine_pending_transactions"
    /\ ret.value # None
    /\ ret.value = get_latest_block(blockchain)
    /\ Len(ret.value.transactions) = 2
    /\ ret.value.nonce >= 2

\* C22: mine_pending_transactions with transactions pending appends exactly
\* one block, holding all pending transactions in the order they were added,
\* with the index of the previous latest block plus one and its stored hash as
\* previous_hash, and leaves nothing pending; so in every ledger built from
\* the genesis block the block at position i has index i.
MineAppendsOneLinkedBlock ==
    [][(ret'.op = "mine_pending_transactions" /\ blockchain.pending_transactions # <<>>)
          => /\ Len(blockchain'.chain) = Len(blockchain.chain) + 1
             /\ SubSeq(blockchain'.chain, 1, Len(blockchain.chain)) = blockchain.chain
             /\ Last(blockchain'.chain).transactions = blockchain.pending_transactions
             /\ Last(blockchain'.chain).index = Last(blockchain.chain).index + 1
             /\ Last(blockchain'.chain).previous_hash = Last(blockchain.chain).hash
             /\ blockchain'.pending_transactions = <<>>
             /\ \A i \in 1..Len(blockchain'.chain) : blockchain'.chain[i].index = i - 1]_vars

\* the fourth block has just been mined from two pending transactions of
\* different users, the first user's added first
MineAppendsOneLinkedBlockWitness ==
    /\ ret.op = "mine_pending_transactions"
    /\ Len(blockchain.chain) = 4
    /\ Len(Last(blockchain.chain).transactions) = 2
    /\ Last(blockchain.chain).transactions[1].user_id = token_hex("user", 1)
    /\ Last(blockchain.chain).transactions[2].user_id = token_hex("user", 2)
    /\ blockchain.pending_transactions = <<>>

----------------------------------------------------------------------------
(* The controller's ledger written both by the controller and by direct
   calls of Blockchain, and read by the scans *)

MixedSessionBound == drawn.tokens <= MaxMixedSessions

NextVaultLedger ==
    \/ \E u \in Usernames, e \in Emails : RegisterUser(u, "pw1", e)
    \/ \E u \in Usernames : Login(u, "pw1") /\ MixedSessionBound'
    \/ \E s \in DOMAIN sessions, n \in DocumentNames, ty \in DocumentTypes :
          UploadDocument(s, n, <<104>>, ty) /\ ChainBound'
    \/ \E s \in DOMAIN sessions, h \in DOMAIN metadata, u \in Usernames :
          TransferDocument(s, h, u) /\ ChainBound'
    \/ \E s \in DOMAIN sessions, h \in DOMAIN metadata : GetDocumentHistory(s, h)
    \/ \E s \in DOMAIN sessions : GetUserTransactions(s)
    \/ \E transaction \in LedgerTransactions :
          /\ transaction.user_id \in {users[u].user_id : u \in DOMAIN users}
          /\ AddTransaction(transaction)
          /\ PendingBound'
    \/ MinePendingTransactions /\ ChainBound'

SpecVaultLedger == Init /\ [][NextVaultLedger]_vars

\* C8: the ledger is append-only: whichever call is made (add_transaction,
\* mine_pending_transactions, upload_document, transfer_document, or a scan
\* that decorates transactions, get_document_history and
\* get_user_transactions), the chain before the call is a prefix of the chain
\* after it: no mined block or transaction in it is removed, reordered or
\* changed.
ChainIsAppendOnly ==
    [][/\ Len(blockchain'.chain) >= Len(blockchain.chain)
       /\ SubSeq(blockchain'.chain, 1, Len(blockchain.chain)) = blockchain.chain]_vars

\* a chain holding a block mined by a direct call (two transactions) and a
\* block mined by the controller has just been scanned by
\* get_user_transactions, which returned decorated copies
ChainIsAppendOnlyWitness ==
    /\ ret.op = "get_user_transactions"
    /\ ret.ok
    /\ Len(ret.value) >= 2
    /\ \A n \in 1..Len(ret.value) : "block_hash" \in DOMAIN ret.value[n]
    /\ Len(blockchain.chain) = 3
    /\ \E i, j \in 2..3 :
          /\ Len(blockchain.chain[i].transactions) = 2
          /\ blockchain.chain[j].transactions[1].type = "document_transfer"
    /\ \A i \in 2..3 : \A n \in 1..Len(blockchain.chain[i].transactions) :
          "block_hash" \notin DOMAIN blockchain.chain[i].transactions[n]

----------------------------------------------------------------------------
(* Custody: documents uploaded and passed on through EVaultController, by
   users who register and log in with one password *)

CustodyChainBound == Len(blockchain.chain) <= MaxCustodyChain

CustodySessionBound == drawn.tokens <= MaxCustodySessions

NextCustody ==
    \/ \E u \in Usernames, e \in Emails : RegisterUser(u, "pw1", e)
    \/ \E u \in Usernames : Login(u, "pw1") /\ CustodySessionBound'
    \/ \E s \in SessionTokens, n \in DocumentNames, c \in VaultContents,
          ty \in DocumentTypes : UploadDocument(s, n, c, ty) /\ CustodyChainBound'
    \/ \E s \in SessionTokens, h \in VaultHashes, u \in Usernames :
          TransferDocument(s, h, u) /\ CustodyChainBound'

SpecCustody == Init /\ [][NextCustody]_vars

\* C24: a successful transfer_document changes the store record of the hash
\* only in user_id (now the recipient's), iv and created_at: its hash, name,
\* type, size and encryption_key are as before, and the records and files of
\* other hashes are untouched.
TransferKeepsRecordButOwner ==
    [][(ret'.op = "transfer_document" /\ ret'.ok) =>
          \A h \in VaultHashes, recipient \in Usernames :
             (ret'.args[2] = h /\ ret'.args[3] = recipient) =>
                /\ DOMAIN metadata' = DOMAIN metadata
                /\ DOMAIN documents' = DOMAIN documents
                /\ h \in DOMAIN metadata
                /\ DOMAIN metadata'[h] = DOMAIN metadata[h]
                /\ metadata'[h].user_id = users[recipient].user_id
                /\ metadata'[h].hash = metadata[h].hash
                /\ metadata'[h].name = metadata[h].name
                /\ metadata'[h].type = metadata[h].type
                /\ metadata'[h].size = metadata[h].size
                /\ metadata'[h].encryption_key = metadata[h].encryption_key
                /\ ret'.value = metadata'[h]
                /\ \A x \in DOMAIN metadata \ {h} :
                      /\ metadata'[x] = metadata[x]
                      /\ documents'[x] = documents[x]]_vars

\* one of two stored documents has just been transferred to the other user:
\* its record names the recipient and carries the newest iv, the other
\* document is still its uploader's
TransferKeepsRecordButOwnerWitness ==
    /\ ret.op = "transfer_document"
    /\ ret.ok
    /\ Cardinality(DOMAIN metadata) = 2
    /\ ret.value.user_id # get_user_by_session(ret.args[1]).user_id
    /\ ret.value.iv = b64encode(get_random_bytes(3))
    /\ \E x \in DOMAIN metadata :
          metadata[x].user_id = get_user_by_session(ret.args[1]).user_id

\* C27: in every state reached through the controller from an empty vault,
\* each hash with a store record has at least one transaction in the chain,
\* and the record's user_id is the custodian the last of them names: the
\* user_id of an upload, the recipient_id of a transfer.
StoreOwnerIsLedgerCustodian ==
    \A h \in DOMAIN metadata :
       LET ForHash(e) == e.transaction.document_hash = h
           Custodian(tx) == IF tx.type = "document_upload" THEN tx.user_id
                            ELSE tx.recipient_id
       IN \A entries \in {SelectSeq(ChainEntries(blockchain.chain, 1), ForHash)} :
             /\ Len(entries) >= 1
             /\ metadata[h].user_id = Custodian(Last(entries).transaction)

\* a document uploaded by one user has been transferred to the other and
\* back: the store names the first user again
StoreOwnerIsLedgerCustodianWitness ==
    \E h \in DOMAIN metadata :
       LET ForHash(e) == e.transaction.document_hash = h
       IN \E entries \in {SelectSeq(ChainEntries(blockchain.chain, 1), ForHash)} :
             /\ Len(entries) = 3
             /\ entries[1].transaction.type = "document_upload"
             /\ entries[2].transaction.type = "document_transfer"
             /\ entries[3].transaction.type = "document_transfer"
             /\ entries[2].transaction.recipient_id # entries[1].transaction.user_id
             /\ entries[3].transaction.recipient_id = entries[1].transaction.user_id
             /\ metadata[h].user_id = entries[1].transaction.user_id

\* C28: in every state reached through the controller from an empty vault,
\* for each hash the first transaction in the chain is an upload, and the
\* sender_id of every transfer is the custodian named by the transaction for
\* that hash just before it: the user_id of an upload, the recipient_id of a
\* transfer.
CustodyIsContinuous ==
    \A h \in VaultHashes :
       LET ForHash(e) == e.transaction.document_hash = h
           Custodian(tx) == IF tx.type = "document_upload" THEN tx.user_id
                            ELSE tx.recipient_id
       IN \A entries \in {SelectSeq(ChainEntries(blockchain.chain, 1), ForHash)} :
             /\ Len(entries) >= 1 => entries[1].transaction.type = "document_upload"
             /\ \A n \in 2..Len(entries) :
                   entries[n].transaction.type = "document_transfer" =>
                      entries[n].transaction.sender_id
                         = Custodian(entries[n - 1].transaction)

\* a document uploaded by one user and then uploaded again by the other has
\* been transferred by the second user to the first
CustodyIsContinuousWitness ==
    \E h \in VaultHashes :
       LET ForHash(e) == e.transaction.document_hash = h
       IN \E entries \in {SelectSeq(ChainEntries(blockchain.chain, 1), ForHash)} :
             /\ Len(entries) = 3
             /\ entries[1].transaction.type = "document_upload"
             /\ entries[2].transaction.type = "document_upload"
             /\ entries[2].transaction.user_id # entries[1].transaction.user_id
             /\ entries[3].transaction.type = "document_transfer"
             /\ entries[3].transaction.sender_id = entries[2].transaction.user_id
             /\ entries[3].transaction.recipient_id = entries[1].transaction.user_id

----------------------------------------------------------------------------
(* The ledger and its checkpoint file: Blockchain and BlockchainPersistence
   called directly, on a storage directory that holds no blockchain.json or
   one that cannot be parsed *)

InitPersistence ==
    /\ blockchain = NewBlockchain(0)
    /\ blockchain_file \in {None, UnparsableFile}
    /\ users = <<>>
    /\ sessions = <<>>
    /\ metadata = <<>>
    /\ documents = <<>>
    /\ now = 0
    /\ drawn = [user_ids |-> 0, salts |-> 0, tokens |-> 0, keys |-> 0, ivs |-> 0]
    /\ ret = [op |-> "init", ok |-> TRUE, value |-> None]
    /\ calls = [c \in Callers |-> IdleCall]
    /\ pending_aliases = {}
    /\ interleaved = FALSE

NextPersistence ==
    \/ \E transaction \in LedgerTransactions : AddTransaction(transaction) /\ PendingBound'
    \/ MinePendingTransactions /\ ChainBound'
    \/ SaveBlockchain
    \/ LoadBlockchain

SpecPersistence == InitPersistence /\ [][NextPersistence]_vars

\* C17: saving any ledger reached by ledger operations and loading the file
\* gives a ledger with the same blocks in the same order (index, timestamp,
\* transactions, previous_hash, nonce and hash of each), the same pending
\* transactions and the same difficulty, and is_chain_valid answers the same
\* on both.
SaveThenLoadKeepsLedger ==
    \A t \in now..MaxTime :
       \A loaded \in {load_blockchain(save_blockchain(blockchain), t)} :
          /\ Len(loaded.chain) = Len(blockchain.chain)
          /\ \A i \in 1..Len(blockchain.chain) :
                /\ loaded.chain[i].index = blockchain.chain[i].index
                /\ loaded.chain[i].timestamp = blockchain.chain[i].timestamp
                /\ loaded.chain[i].transactions = blockchain.chain[i].transactions
                /\ loaded.chain[i].previous_hash = blockchain.chain[i].previous_hash
                /\ loaded.chain[i].nonce = blockchain.chain[i].nonce
                /\ loaded.chain[i].hash = blockchain.chain[i].hash
          /\ loaded.pending_transactions = blockchain.pending_transactions
          /\ loaded.difficulty = blockchain.difficulty
          /\ is_chain_valid(loaded) = is_chain_valid(blockchain)

\* a ledger of three blocks, one mined with a nonce above 0, and a pending
\* transaction has been saved and has just been loaded from the file
SaveThenLoadKeepsLedgerWitness ==
    /\ ret.op = "load_blockchain"
    /\ blockchain_file = save_blockchain(blockchain)
    /\ Len(blockchain.chain) = 3
    /\ \E i \in 1..Len(blockchain.chain) : blockchain.chain[i].nonce > 0
    /\ blockchain.pending_transactions # <<>>

\* C18: load_blockchain with no blockchain.json, and with one that cannot be
\* parsed, returns without error a ledger holding only a genesis block
\* (index 0, no transactions, previous_hash "0"), no pending transactions and
\* difficulty 2, and leaves the file as it was.
LoadWithoutSnapshotIsFresh ==
    [][(ret'.op = "load_blockchain" /\ blockchain_file \in {None, UnparsableFile})
        => /\ ret'.ok
           /\ Len(blockchain'.chain) = 1
           /\ blockchain'.chain[1].index = 0
           /\ blockchain'.chain[1].transactions = <<>>
           /\ blockchain'.chain[1].previous_hash = GenesisPreviousHash
           /\ blockchain'.pending_transactions = <<>>
           /\ blockchain'.difficulty = DefaultDifficulty
           /\ blockchain_file' = blockchain_file]_vars

\* an unparsable file has just been loaded after the clock moved on: the
\* ledger in memory is a genesis block made at the time of the load
LoadWithoutSnapshotIsFreshWitness ==
    /\ ret.op = "load_blockchain"
    /\ blockchain_file = UnparsableFile
    /\ Len(blockchain.chain) = 1
    /\ blockchain.chain[1].timestamp = MaxTime
    /\ MaxTime > 0

----------------------------------------------------------------------------
(* The ledger and a checkpoint file that others can write: Blockchain and
   BlockchainPersistence called directly, and blockchain.json replaced or
   edited between the calls *)

SnapshotTransactions ==
    {[type |-> "document_upload", user_id |-> token_hex("user", 1),
      document_hash |-> _generate_document_hash(<<>>),
      document_name |-> "greet.txt", document_type |-> "text/plain",
      timestamp |-> now]}

\* valid JSON without a "chain", and with an empty one
ChainlessFiles == {[difficulty |-> DefaultDifficulty], [chain |-> <<>>]}

EditedFields == {"index", "transactions", "previous_hash", "hash"}

\* the file is the one save_blockchain wrote for the ledger in memory, and
\* that ledger is one the program built: indexes in order, transactions the
\* callers', every hash the digest of its block, every mined hash meeting the
\* difficulty
SnapshotAsSaved ==
    /\ blockchain_file = save_blockchain(blockchain)
    /\ \A i \in 1..Len(blockchain.chain) :
          /\ blockchain.chain[i].index = i - 1
          /\ \A k \in 1..Len(blockchain.chain[i].transactions) :
                blockchain.chain[i].transactions[k].type = "document_upload"
          /\ blockchain.chain[i].hash = calculate_hash(blockchain.chain[i])
          /\ i > 1 => /\ LeadingZeros(blockchain.chain[i].hash) >= blockchain.difficulty
                      /\ blockchain.chain[i].previous_hash = blockchain.chain[i - 1].hash

SnapshotChainBound == Len(blockchain.chain) <= MaxSnapshotChain

SnapshotPendingBound == Len(blockchain.pending_transactions) <= MaxSnapshotPending

NextSnapshot ==
    \/ \E transaction \in SnapshotTransactions :
          AddTransaction(transaction) /\ SnapshotPendingBound'
    \/ MinePendingTransactions /\ SnapshotChainBound'
    \/ SaveBlockchain
    \/ LoadBlockchain
    \/ IsChainValid
    \/ \E data \in ChainlessFiles : OverwriteSnapshot(data)
    \/ \E i \in 1..MaxSnapshotChain, field \in EditedFields :
          SnapshotAsSaved /\ EditSnapshot(i, field)
    \/ \E i \in 1..MaxSnapshotChain, field \in EditedFields :
          SnapshotAsSaved /\ RewriteSnapshot(i, field)

SpecSnapshot == InitPersistence /\ [][NextSnapshot]_vars

\* C21: is_chain_valid returns True exactly when every block after the first
\* has a stored hash equal to the digest of its stored index, timestamp,
\* transactions, previous_hash and nonce and a previous_hash equal to the
\* stored hash of the block before it; so a saved chain in which a block was
\* edited and that block and all later ones were re-hashed and re-linked loads
\* as a valid chain, whatever its hashes begin with and whatever its indexes.
ValidityIsDigestAndLinkOnly ==
    [][/\ ret'.op = "is_chain_valid" =>
            ret'.value =
               (\A i \in 2..Len(blockchain.chain) :
                   /\ blockchain.chain[i].hash =
                         <<blockchain.chain[i].index, blockchain.chain[i].timestamp,
                           blockchain.chain[i].transactions,
                           blockchain.chain[i].previous_hash, blockchain.chain[i].nonce>>
                   /\ blockchain.chain[i].previous_hash = blockchain.chain[i - 1].hash)
       /\ ret'.op = "rewrite_snapshot" =>
            \A t \in now..MaxTime :
               \A loaded \in {load_blockchain(blockchain_file', t)} :
                  /\ loaded.chain = blockchain_file'.chain
                  /\ is_chain_valid(loaded)]_vars

\* is_chain_valid has just returned True for a loaded chain of three blocks
\* whose second block was given a forged transaction and a re-computed hash
\* that does not meet the difficulty, the third block linked to that hash
ValidityIsDigestAndLinkOnlyWitness ==
    /\ ret.op = "is_chain_valid"
    /\ ret.value = TRUE
    /\ Len(blockchain.chain) = 3
    /\ blockchain.chain[2].transactions[1] = [type |-> "forged"]
    /\ LeadingZeros(blockchain.chain[2].hash) < blockchain.difficulty
    /\ blockchain.chain[3].previous_hash = blockchain.chain[2].hash

\* C30: whatever blockchain.json holds that is no saved chain (no file, text
\* that is not JSON, JSON without "chain" or with an empty one),
\* load_blockchain returns without raising a ledger whose chain begins with a
\* genesis block of index 0, so that add_transaction and
\* mine_pending_transactions never fail on a loaded ledger.
LoadedChainStartsWithGenesis ==
    /\ (/\ ret.op = "load_blockchain"
        /\ IF "chain" \in DOMAIN blockchain_file THEN blockchain_file.chain = <<>>
           ELSE TRUE)
       => /\ ret.ok
          /\ Len(blockchain.chain) >= 1
          /\ blockchain.chain[1].index = 0
    /\ ret.op \in {"add_transaction", "mine_pending_transactions"} => ret.ok


SaltBound == drawn.salts <= MaxSalts

NextAuth ==
    \/ \E u \in Usernames, p \in Passwords, e \in Emails :
          RegisterUser(u, p, e) /\ SaltBound'
    \/ \E u \in Usernames, p \in Passwords : Login(u, p) /\ SessionBound'
    \/ \E s \in SessionTokens : Logout(s)
    \/ \E u \in Usernames, p, q \in Passwords : ChangePassword(u, p, q) /\ SaltBound'

SpecAuth == Init /\ [][NextAuth]_vars

\* C14: login with a username nobody registered, or with a password that is not
\* the user's current one, returns None and leaves the sessions as they were;
\* login with the current password returns a new token recorded for that user;
\* and no other call ever adds a token to the sessions.
LoginNeedsCurrentPassword ==
    [][/\ ret'.op = "login" =>
          \A u \in Usernames, p \in Passwords :
             Login(u, p) =>
                IF u \in DOMAIN users /\ users[u].hashed_password[2] = p
                THEN /\ ret'.value # None
                     /\ ret'.value \notin DOMAIN sessions
                     /\ DOMAIN sessions' = DOMAIN sessions \cup {ret'.value}
                     /\ sessions'[ret'.value] = [user_id |-> users[u].user_id,
                                                 username |-> u]
                     /\ \A s \in DOMAIN sessions : sessions'[s] = sessions[s]
                ELSE /\ ret'.value = None
                     /\ sessions' = sessions
       /\ ~(DOMAIN sessions' \subseteq DOMAIN sessions) =>
             /\ ret'.op = "login"
             /\ \E u \in DOMAIN users :
                   /\ Login(u, users[u].hashed_password[2])
                   /\ sessions'[ret'.value].username = u]_vars

\* a user who changed password has just been refused with the old one, while
\* holding a session from an earlier login
LoginNeedsCurrentPasswordWitness ==
    /\ ret.op = "login"
    /\ ret.value = None
    /\ \E u \in DOMAIN users :
          /\ users[u].hashed_password[2] = "pw2"
          /\ users[u].salt # token_hex("salt", 1)
          /\ \E s \in DOMAIN sessions : sessions[s].username = u
    /\ Cardinality(DOMAIN users) = 1

\* C25: change_password(username, old, new) returns True only when old is the
\* user's current password; it then replaces salt and hashed_password together
\* so that the login comparison accepts new and, when old differs from new,
\* no longer accepts old, while user_id, username, email and role and every
\* other user stay as they were; for an unknown user or a wrong old password
\* it returns False and leaves the users unchanged.
ChangePasswordNeedsOldPassword ==
    [][ret'.op = "change_password" =>
          \A u \in Usernames, old, new \in Passwords :
             ChangePassword(u, old, new) =>
                IF ret'.value = TRUE
                THEN /\ u \in DOMAIN users
                     /\ _hash_password(old, users[u].salt) = users[u].hashed_password
                     /\ DOMAIN users' = DOMAIN users
                     /\ users'[u].salt # users[u].salt
                     /\ _hash_password(new, users'[u].salt) = users'[u].hashed_password
                     /\ old # new =>
                           _hash_password(old, users'[u].salt) # users'[u].hashed_password
                     /\ \A k \in DOMAIN users[u] \ {"salt", "hashed_password"} :
                           users'[u][k] = users[u][k]
                     /\ DOMAIN users'[u] = DOMAIN users[u]
                     /\ \A v \in DOMAIN users \ {u} : users'[v] = users[v]
                ELSE /\ \/ u \notin DOMAIN users
                        \/ _hash_password(old, users[u].salt) # users[u].hashed_password
                     /\ users' = users]_vars

\* after a change from "pw1" to "pw2" the user has logged in with "pw2", and
\* a change_password giving "pw1" as the old password has just returned False
ChangePasswordNeedsOldPasswordWitness ==
    /\ ret.op = "change_password"
    /\ ret.value = FALSE
    /\ drawn.salts = 2
    /\ drawn.tokens = 1
    /\ \E u \in DOMAIN users :
          /\ users[u].hashed_password = _hash_password("pw2", token_hex("salt", 2))
          /\ users[u].salt = token_hex("salt", 2)
          /\ \E s \in DOMAIN sessions : sessions[s].username = u
    /\ Cardinality(DOMAIN users) = 1

\* C15: logout(token) of a token in the sessions removes that token and no
\* other and returns True; of a token not in the sessions (never issued, or
\* logged out before) it returns False and leaves the sessions as they were.
LogoutRemovesOnlyThatToken ==
    [][ret'.op = "logout" =>
          \A s \in SessionTokens :
             Logout(s) =>
                /\ IF s \in DOMAIN sessions
                   THEN /\ ret'.value = TRUE
                        /\ DOMAIN sessions' = DOMAIN sessions \ {s}
                        /\ \A s2 \in DOMAIN sessions' : sessions'[s2] = sessions[s2]
                   ELSE /\ ret'.value = FALSE
                        /\ sessions' = sessions
                /\ s \notin DOMAIN sessions'
                /\ users' = users]_vars

\* logout has just returned False when two tokens had been issued, one of
\* them already logged out and the other still open
LogoutRemovesOnlyThatTokenWitness ==
    /\ ret.op = "logout"
    /\ ret.value = FALSE
    /\ drawn.tokens = 2
    /\ Cardinality(DOMAIN sessions) = 1

\* C16: register_user with a username that is taken raises "Username already
\* exists" and leaves the users as they were: the user's id, password hash,
\* salt, email and role stay, and whichever password logged the user in before
\* still does.
DuplicateUsernameIsRefused ==
    [][ret'.op = "register_user" =>
          \A u \in Usernames, p \in Passwords, e \in Emails :
             (u \in DOMAIN users /\ RegisterUser(u, p, e)) =>
                /\ ~ret'.ok
                /\ ret'.error = "Username already exists"
                /\ users' = users
                /\ sessions' = sessions
                /\ \A q \in Passwords :
                      _hash_password(q, users[u].salt) = users[u].hashed_password
                      => _hash_password(q, users'[u].salt) = users'[u].hashed_password]_vars

\* two users are registered under different names and ids, and a second
\* registration of a taken name has just been refused
DuplicateUsernameIsRefusedWitness ==
    /\ ret.op = "register_user"
    /\ ~ret.ok
    /\ Cardinality(DOMAIN users) = 2
    /\ Cardinality({users[u].user_id : u \in DOMAIN users}) = 2
    /\ drawn.user_ids = 2

----------------------------------------------------------------------------
(* Sessions while the vault is used: UserAuth called directly for accounts and
   sessions, EVaultController for uploads and transfers *)

NextSessions ==
    \/ \E u \in Usernames, e \in Emails : RegisterUser(u, "pw1", e) /\ SaltBound'
    \/ \E u \in Usernames, p \in Passwords : Login(u, p) /\ SessionBound'
    \/ \E s \in SessionTokens : Logout(s)
    \/ \E u \in Usernames, p, q \in Passwords : ChangePassword(u, p, q) /\ SaltBound'
    \/ \E s \in DOMAIN sessions, n \in DocumentNames, ty \in DocumentTypes :
          UploadDocument(s, n, <<104>>, ty) /\ ChainBound'
    \/ \E s \in DOMAIN sessions, h \in DOMAIN metadata, u \in Usernames :
          TransferDocument(s, h, u) /\ ChainBound'

SpecSessions == Init /\ [][NextSessions]_vars

\* C26: a session token resolves (get_user_by_session) to the user who logged
\* in with it in every state from the login that issued it until the logout
\* of that token, whatever registrations, other logins and logouts, password
\* changes, uploads and transfers come between; from that logout on it never
\* resolves again; other tokens of the same user are not affected.
TokenResolvesFromLoginToLogout ==
    [][\A n \in 1..(MaxSessions + 1) :
          \A s \in {token_hex("session", n)} :
             \* issued by this step: it resolves to the user who logged in
             /\ (s \notin DOMAIN sessions /\ s \in DOMAIN sessions') =>
                   /\ n = drawn.tokens + 1
                   /\ ret'.op = "login" /\ ret'.value = s
                   /\ \E u \in DOMAIN users :
                         /\ Login(u, users[u].hashed_password[2])
                         /\ get_user_by_session(s)' = users[u]
             \* open before this step: unless the step is its logout, it
             \* still resolves, and to the same user
             /\ s \in DOMAIN sessions =>
                   /\ get_user_by_session(s) # None
                   /\ IF ret'.op = "logout" /\ Logout(s)
                      THEN get_user_by_session(s)' = None
                      ELSE /\ get_user_by_session(s)' # None
                           /\ get_user_by_session(s)'.user_id
                                = get_user_by_session(s).user_id
                           /\ get_user_by_session(s)'.username
                                = get_user_by_session(s).username
             \* issued and logged out before this step: it stays unresolved
             /\ (n <= drawn.tokens /\ s \notin DOMAIN sessions) =>
                   get_user_by_session(s)' = None]_vars

\* the second of two tokens of one user has just been logged out; the first
\* still resolves to that user, who has changed password and uploaded a
\* document since logging in
TokenResolvesFromLoginToLogoutWitness ==
    /\ ret.op = "logout"
    /\ ret.value = TRUE
    /\ drawn.tokens = 2
    /\ DOMAIN sessions = {token_hex("session", 1)}
    /\ get_user_by_session(token_hex("session", 1)) # None
    /\ get_user_by_session(token_hex("session", 1)).salt # token_hex("salt", 1)
    /\ Cardinality(DOMAIN users) = 1
    /\ Len(blockchain.chain) >= 2

----------------------------------------------------------------------------
(* The store alone: DocumentStorage called directly *)

\* short strings, and strings one byte short of a cipher block, one block
\* long and one byte longer, ending like padding
StoreContents ==
    BytesUpTo(MaxBytes, 104)
    \cup {[i \in 1..(AES_block_size - 1) |-> 1],
          [i \in 1..AES_block_size |-> AES_block_size],
          [i \in 1..(AES_block_size + 1) |-> 1]}

StoreHashes == {_generate_document_hash(c) : c \in StoreContents}

SuppliedKeys == {None, <<7>>}

StoreCallBound == drawn.ivs <= MaxStoreCalls

NextStore ==
    \/ \E u \in LedgerUserIds, n \in DocumentNames, c \in StoreContents,
          ty \in DocumentTypes, k \in SuppliedKeys :
          StoreDocument(u, n, c, ty, k) /\ StoreCallBound'
    \/ \E h \in StoreHashes : RetrieveDocument(h)
    \/ \E h \in StoreHashes : DeleteDocument(h)
    \/ \E u \in LedgerUserIds : StorageGetUserDocuments(u)

SpecStore == Init /\ [][NextStore]_vars

\* C5: a store_document call with the bytes of a document the store already
\* holds for another owner returns the same hash as the first call did and
\* leaves one record and one file for that hash, owned by the second caller;
\* the first owner no longer lists the document.
SameBytesSecondOwnerWins ==
    (/\ ret.op = "store_document"
     /\ ret.replaced # None
     /\ ret.replaced.user_id # ret.args[1])
    => LET h == ret.value.hash
       IN /\ h = ret.replaced.hash
          /\ h = _generate_document_hash(ret.args[3])
          /\ Cardinality({x \in DOMAIN metadata : metadata[x].hash = h}) = 1
          /\ Cardinality({x \in DOMAIN metadata :
                             metadata[x].hash = ret.replaced.hash}) = 1
          /\ h \in DOMAIN documents
          /\ metadata[h] = ret.value
          /\ metadata[h].user_id = ret.args[1]
          /\ h \notin DOMAIN storage_get_user_documents(metadata, ret.replaced.user_id)
          /\ h \in DOMAIN storage_get_user_documents(metadata, ret.args[1])

\* the second owner has just stored the bytes the first owner had stored
SameBytesSecondOwnerWinsWitness ==
    /\ ret.op = "store_document"
    /\ ret.replaced # None
    /\ ret.replaced.user_id # ret.args[1]
    /\ ret.replaced.hash = _generate_document_hash(ret.args[3])
    /\ Len(ret.args[3]) > 0

\* C6: after store_document(owner, name, b, mime) or
\* store_document(owner, name, b, mime, key), for every byte string b, the
\* empty one included, retrieve_document of the returned hash returns b and
\* the record returned by the store.
StoreRetrieveRoundTrip ==
    ret.op = "store_document" =>
        LET r == retrieve_document(metadata, documents, ret.value.hash)
        IN /\ r.ok
           /\ r.content = ret.args[3]
           /\ r.record = ret.value

\* the empty byte string has just been stored under a caller's key, next to a
\* document of exactly one cipher block stored under a drawn key
StoreRetrieveRoundTripWitness ==
    /\ ret.op = "store_document"
    /\ ret.args[3] = <<>>
    /\ ret.args[5] # None
    /\ \E h \in DOMAIN metadata :
          /\ metadata[h].size = AES_block_size
          /\ \E n \in 1..MaxStoreCalls :
                metadata[h].encryption_key = b64encode(get_random_bytes(n))
          /\ Len(documents[h]) = 2 * AES_block_size

\* C19: after any sequence of store_document and delete_document calls, the
\* hashes with a metadata record are the hashes with an encrypted file, and
\* each file decrypts under its record's key and iv to bytes whose SHA-256 is
\* the hash.
MetadataAndFilesInLockstep ==
    /\ DOMAIN metadata = DOMAIN documents
    /\ \A h \in DOMAIN metadata :
          \A decrypted \in {_decrypt_document(documents[h],
                                              b64decode(metadata[h].encryption_key),
                                              b64decode(metadata[h].iv))} :
             /\ decrypted # None
             /\ _generate_document_hash(decrypted[1]) = h

\* of two documents stored, the first is still held and the second has just
\* been deleted
MetadataAndFilesInLockstepWitness ==
    /\ ret.op = "delete_document"
    /\ ret.value = TRUE
    /\ drawn.ivs = 2
    /\ Cardinality(DOMAIN metadata) = 1
    /\ \A h \in DOMAIN metadata : b64decode(metadata[h].iv) = get_random_bytes(1)

\* C20: delete_document(h) with a record for h returns True and removes the
\* record and the file of h, after which retrieve_document(h) raises
\* "not found"; without a record for h it returns False and changes nothing,
\* so deleting h again is a no-op; records and files of other hashes stay as
\* they were.
DeleteRemovesOnlyThatHash ==
    [][ret'.op = "delete_document" =>
        \A h \in StoreHashes :
           ret'.args = <<h>> =>
              /\ IF h \in DOMAIN metadata
                 THEN /\ ret'.value = TRUE
                      /\ h \notin DOMAIN metadata'
                      /\ h \notin DOMAIN documents'
                      /\ retrieve_document(metadata', documents', h)
                           = Raise("Document not found")
                 ELSE /\ ret'.value = FALSE
                      /\ metadata' = metadata
                      /\ documents' = documents
              /\ delete_document(metadata', documents', h)
                   = [metadata |-> metadata', documents |-> documents', value |-> FALSE]
              /\ \A x \in (DOMAIN metadata \cup DOMAIN metadata') \ {h} :
                    /\ x \in DOMAIN metadata /\ x \in DOMAIN metadata'
                    /\ metadata'[x] = metadata[x]
              /\ \A x \in (DOMAIN documents \cup DOMAIN documents') \ {h} :
                    /\ x \in DOMAIN documents /\ x \in DOMAIN documents'
                    /\ documents'[x] = documents[x]]_vars

\* of two documents stored the second is gone, and a delete_document of a
\* hash without a record has just returned False while the first document
\* is still held
DeleteRemovesOnlyThatHashWitness ==
    /\ ret.op = "delete_document"
    /\ ret.value = FALSE
    /\ drawn.ivs = 2
    /\ Cardinality(DOMAIN metadata) = 1
    /\ \A h \in DOMAIN metadata : b64decode(metadata[h].iv) = get_random_bytes(1)

----------------------------------------------------------------------------
(* The ledger section of upload_document and transfer_document taken        *)
(* statement by statement by several callers of one controller             *)
(* (app.py builds one EVaultController for the process; no statement of    *)
(* blockchain.py or evault_controller.py takes a lock).  What comes before *)
(* the section in either call (the session lookup, the store) does not     *)
(* touch the ledger.                                                       *)
(*                                                                         *)
(* add_block(self.pending_transactions) hands the new Block the list       *)
(* object itself: until `self.pending_transactions = []` rebinds the name, *)
(* the transactions of that block and the pending list are one list, and   *)
(* an append to one is an append to the other.  pending_aliases holds the  *)
(* positions of the blocks in that situation.                              *)

\* the transaction the k-th call of caller c hands to add_transaction
CallTransaction(c, kind, k, t) ==
    IF kind = "upload_document"
    THEN [type |-> "document_upload", user_id |-> token_hex("user", c),
          document_hash |-> _generate_document_hash(<<k>>),
          document_name |-> "deed", document_type |-> "pdf", timestamp |-> t]
    ELSE [type |-> "document_transfer", sender_id |-> token_hex("user", c),
          recipient_id |-> token_hex("user", 0),
          document_hash |-> _generate_document_hash(<<k>>),
          document_name |-> "deed", timestamp |-> t]

CallKinds == {"upload_document", "transfer_document"}

\* self.pending_transactions.append(transaction) on a list that the blocks
\* at the positions `aliases` hold as their transactions
append_pending(bc, aliases, transaction) ==
    [bc EXCEPT !.pending_transactions = Append(@, transaction),
               !.chain = [i \in DOMAIN @ |->
                            IF i \in aliases
                            THEN [@[i] EXCEPT !.transactions = Append(@, transaction)]
                            ELSE @[i]]]

(* self.blockchain.add_transaction(transaction) *)
CallAddTransaction(c, kind) ==
    /\ calls[c].pc = "idle"
    /\ Cardinality(calls[c].done) < MaxCallsPerCaller
    /\ \E transaction \in {CallTransaction(c, kind, Cardinality(calls[c].done) + 1, now)} :
          /\ blockchain' = append_pending(blockchain, pending_aliases, transaction)
          /\ calls' = [calls EXCEPT ![c] = [@ EXCEPT !.pc = "mine",
                                                     !.transaction = transaction]]
    /\ interleaved' = (interleaved \/ \E other \in Callers \ {c} : calls[other].pc # "idle")
    /\ UNCHANGED <<blockchain_file, now, drawn, ret, pending_aliases>>
    /\ UNCHANGED_store /\ UNCHANGED_auth

(* mine_pending_transactions up to and including self.add_block(...):
   nothing to mine and the call goes on to save, or the block is built over
   the pending list, mined and appended *)
CallAddBlock(c) ==
    /\ calls[c].pc = "mine"
    /\ IF blockchain.pending_transactions = <<>>
       THEN /\ calls' = [calls EXCEPT ![c].pc = "save"]
            /\ UNCHANGED <<blockchain, now, pending_aliases>>
       ELSE \E t \in now..MaxTime :
               /\ blockchain' = add_block(blockchain, blockchain.pending_transactions, t)
               /\ pending_aliases' = pending_aliases \cup {Len(blockchain.chain) + 1}
               /\ now' = t
               /\ calls' = [calls EXCEPT ![c].pc = "reset"]
    /\ UNCHANGED <<blockchain_file, drawn, ret, interleaved>>
    /\ UNCHANGED_store /\ UNCHANGED_auth

\* mine_pending_transactions that returns without rebinding pending_transactions
CallResetPending_skipped(c) ==
    /\ calls[c].pc = "reset"
    /\ calls' = [calls EXCEPT ![c].pc = "save"]
    /\ UNCHANGED <<blockchain, pending_aliases>>
    /\ UNCHANGED <<blockchain_file, now, drawn, ret, interleaved>>
    /\ UNCHANGED_store /\ UNCHANGED_auth

(* self.pending_transactions = [] : the name is bound to a new list, the
   blocks keep the old one *)
CallResetPending(c) ==
    /\ calls[c].pc = "reset"
    /\ blockchain' = [blockchain EXCEPT !.pending_transactions = <<>>]
    /\ pending_aliases' = {}
    /\ calls' = [calls EXCEPT ![c].pc = "save"]
    /\ UNCHANGED <<blockchain_file, now, drawn, ret, interleaved>>
    /\ UNCHANGED_store /\ UNCHANGED_auth

(* self.blockchain_persistence.save_blockchain(self.blockchain), after which
   the call returns *)
CallSave(c) ==
    /\ calls[c].pc = "save"
    /\ blockchain_file' = save_blockchain(blockchain)
    /\ calls' = [calls EXCEPT ![c] = [pc |-> "idle", transaction |-> None,
                                      done |-> @.done \cup {@.transaction}]]
    /\ ret' = [op |-> "controller_call", ok |-> TRUE, caller |-> c,
               transaction |-> calls[c].transaction]
    /\ UNCHANGED <<blockchain, now, drawn, pending_aliases, interleaved>>
    /\ UNCHANGED_store /\ UNCHANGED_auth

NextWriters ==
    \/ \E c \in Callers, kind \in CallKinds : CallAddTransaction(c, kind)
    \/ \E c \in Callers : CallAddBlock(c)
    \/ \E c \in Callers : CallResetPending(c)
    \/ \E c \in Callers : CallSave(c)

SpecWriters == Init /\ [][NextWriters]_vars

\* C31 as stated: whatever the interleaving of the statements of two calls,
\* every step leaves is_chain_valid true, leaves the transactions of the
\* blocks already in the chain as they were, and leaves the transaction of
\* every call that has returned in exactly one block.
InterleavedCallsKeepLedgerSound ==
    [][LET Places(bc, transaction) ==
               {p \in {<<i, j>> : i \in 1..Len(bc.chain), j \in 1..MaxCallers * MaxCallsPerCaller} :
                   /\ p[2] <= Len(bc.chain[p[1]].transactions)
                   /\ bc.chain[p[1]].transactions[p[2]] = transaction}
       IN /\ is_chain_valid(blockchain')
          /\ \A i \in 1..Len(blockchain.chain) :
                blockchain'.chain[i].transactions = blockchain.chain[i].transactions
          /\ \A c \in Callers : \A transaction \in calls'[c].done :
                Cardinality(Places(blockchain', transaction)) = 1]_vars

\* C31, amended: as long as no call has begun while another call was in
\* progress, every step leaves is_chain_valid true, leaves the blocks
\* already in the chain as they were, leaves the transaction of every call
\* that has returned in exactly one block.
SerialCallsKeepLedgerSound ==
    [][LET Places(bc, transaction) ==
               {p \in {<<i, j>> : i \in 1..Len(bc.chain), j \in 1..MaxCallers * MaxCallsPerCaller} :
                   /\ p[2] <= Len(bc.chain[p[1]].transactions)
                   /\ bc.chain[p[1]].transactions[p[2]] = transaction}
       IN ~interleaved' =>
             /\ is_chain_valid(blockchain')
             /\ \A i \in 1..Len(blockchain.chain) :
                   blockchain'.chain[i] = blockchain.chain[i]
             /\ \A c \in Callers : \A transaction \in calls'[c].done :
                   Cardinality(Places(blockchain', transaction)) = 1]_vars

\* both callers have made all their calls, the last of them has just
\* returned, and the ledger is valid with one block per call, each holding
\* the transaction of one call
SerialCallsKeepLedgerSoundWitness ==
    /\ ~interleaved
    /\ ret.op = "controller_call"
    /\ \A c \in Callers :
          calls[c].pc = "idle" /\ Cardinality(calls[c].done) = MaxCallsPerCaller
    /\ is_chain_valid(blockchain)
    /\ Len(blockchain.chain) = 1 + MaxCallers * MaxCallsPerCaller
    /\ \A c \in Callers : \A transaction \in calls[c].done :
          \E i \in 2..Len(blockchain.chain) :
             blockchain.chain[i].transactions = <<transaction>>
    /\ blockchain_file = save_blockchain(blockchain)

====
